---------------------------- MODULE Spec2Model ----------------------------
(***************************************************************************)
(* A model of the ComfyUI Qwen image nodes: the three side-by-side         *)
(* implementations of the nodes (the monolithic qwen_image_nodes.py, the   *)
(* region-aware qwen_image/ + qwen/ + core/api_base.py, and the            *)
(* client-based qwen_image/nodes/ + qwen_image/api/client.py), their       *)
(* configuration, the request they post, the way they read the response    *)
(* and the way they report failures.                                       *)
(*                                                                         *)
(* Strings that the code inspects character by character (the API keys)    *)
(* are sequences of one-character strings.  A message built by an f-string *)
(* is the sequence of its segments: Lit(..) for the literal text and       *)
(* Part(kind, v) for an interpolated value.                                *)
(***************************************************************************)
EXTENDS Integers, Sequences, FiniteSets, TLC

VARIABLES
    env,      \* os.environ after load_dotenv: the two DASHSCOPE_* variables
    cfg,      \* the outcome of a stand-alone QwenAPIConfig() construction
    node,     \* the node object under study (its fields after __init__)
    pc,       \* where the current invocation stands
    call,     \* the current invocation: operation and arguments
    request,  \* the request the invocation prepared: url, headers, payload
    response, \* what the POST produced
    image_url,\* the value extracted from the POST response
    download, \* what the GET produced
    netlog,   \* the network events of the current invocation, in order
    raised,   \* the exceptions raised during the current invocation, in order
    ret,      \* how the current invocation ended
    ncalls,   \* invocations started on this node
    codec,    \* a stand-alone run of the image codec: tensor, encoding, decoding
    stdout    \* the debug lines about the API key that a stand-alone run printed

vars == <<env, cfg, node, pc, call, request, response, image_url, download,
          netlog, raised, ret, ncalls, codec, stdout>>

(***************************************************************************)
(* Bounds of the model.                                                    *)
(***************************************************************************)
MaxKeyLen == 5
MaxCalls == 2

(***************************************************************************)
(* Python values.                                                          *)
(***************************************************************************)
\* Python's None where a string is expected (no string of characters equals it).
None == <<"<None>">>

\* bool(s) for a str-or-None value: None and '' are falsy.
Truthy(s) == s # None /\ s # <<>>

DQ == "\""
SQ == "'"
SP == " "

\* The characters an environment value is made of in this model.
Chars == {SP, DQ, SQ, "k", "c"}

\* What str.strip() removes, and what .strip('"\'') removes.
Whitespace == {SP}
Quotes == {DQ, SQ}

RECURSIVE LStrip(_, _)
LStrip(s, cs) ==
    IF s # <<>> /\ Head(s) \in cs THEN LStrip(Tail(s), cs) ELSE s

RECURSIVE RStrip(_, _)
RStrip(s, cs) ==
    IF s # <<>> /\ s[Len(s)] \in cs THEN RStrip(SubSeq(s, 1, Len(s) - 1), cs) ELSE s

\* str.strip(chars): every leading and trailing character of the set goes.
PyStrip(s, cs) == RStrip(LStrip(s, cs), cs)

StripKeyOnlyWhitespace(raw) == PyStrip(raw, Whitespace)

\* api_key.strip().strip('"\'')
StripKey(raw) == PyStrip(PyStrip(raw, Whitespace), Quotes)

RECURSIVE StringsUpTo(_)
StringsUpTo(n) ==
    IF n = 0 THEN {<<>>}
    ELSE LET shorter == StringsUpTo(n - 1)
         IN  shorter \cup {Append(s, c) : s \in shorter, c \in Chars}

(***************************************************************************)
(* Exceptions and their messages.                                          *)
(***************************************************************************)
Lit(s) == [k |-> "lit", v |-> s]
Part(kind, v) == [k |-> kind, v |-> v]

\* An exception object: its class, str(e), whether it is a
\* requests.exceptions.RequestException, and e.response (NoResponse for None).
NoResponse == [present |-> FALSE]
Exc(type, msg) == [type |-> type, msg |-> msg, isRequestException |-> FALSE,
                   response |-> NoResponse]
ReqExc(type, msg, resp) == [type |-> type, msg |-> msg, isRequestException |-> TRUE,
                            response |-> resp]

\* The classes of qwen_image/exceptions.py below QwenAPIError.
QwenAPIErrorClasses == {"QwenAPIConfigurationError", "QwenAPIAuthenticationError",
                        "QwenAPIRequestError", "QwenAPIResponseError"}

KeyNotSetMsg == <<Lit("DASHSCOPE_API_KEY environment variable not set. Please set it before using this node.")>>

(***************************************************************************)
(* qwen_image/utils/config.py                                              *)
(***************************************************************************)
\* QwenAPIConfig._get_api_key
ConfigGetApiKey(e) ==
    IF Truthy(e.DASHSCOPE_API_KEY) THEN StripKey(e.DASHSCOPE_API_KEY) ELSE None

\* QwenAPIConfig.__init__ with _validate_config: the object, or the exception.
QwenAPIConfigUnvalidated(e) == [ok |-> TRUE, api_key |-> ConfigGetApiKey(e)]
QwenAPIConfig(e) ==
    LET key == ConfigGetApiKey(e)
    IN  IF ~Truthy(key)
        THEN [ok |-> FALSE, exc |-> Exc("QwenAPIConfigurationError", KeyNotSetMsg)]
        ELSE [ok |-> TRUE, api_key |-> key]

T2I_API_URL == "https://dashscope-intl.aliyuncs.com/api/v1/services/aigc/multimodal-generation/generation"
I2I_API_URL == "https://dashscope-intl.aliyuncs.com/api/v1/services/aigc/multimodal-generation/generation"

(***************************************************************************)
(* JSON values as response.json() returns them, and the Python operations  *)
(* the extraction code applies to them.  A str is a sequence of segments;  *)
(* a key that occurs inside a str occurs as one of its segments.           *)
(***************************************************************************)
JNull == [t |-> "null"]
JNum == [t |-> "num"]
JStr(s) == [t |-> "str", s |-> s]
JList(l) == [t |-> "list", l |-> l]
JDict(d) == [t |-> "dict", d |-> d]
JEmptyDict == JDict(<<>>)

\* The outcome of evaluating a Python expression: a value, or the exception class.
Ok(v) == [e |-> "", v |-> v]
Err(t) == [e |-> t, v |-> JNull]
OkBool(b) == [e |-> "", b |-> b]
ErrBool(t) == [e |-> t, b |-> FALSE]

\* k in v
PyContains(k, r) ==
    IF r.e # "" THEN ErrBool(r.e)
    ELSE CASE r.v.t = "dict" -> OkBool(k \in DOMAIN r.v.d)
           [] r.v.t = "list" -> OkBool(\E i \in 1..Len(r.v.l) :
                                          r.v.l[i].t = "str" /\ r.v.l[i].s = <<k>>)
           [] r.v.t = "str"  -> OkBool(\E i \in 1..Len(r.v.s) : r.v.s[i] = k)
           [] OTHER          -> ErrBool("TypeError")

\* v[k] for a str key k
PyGetKey(r, k) ==
    IF r.e # "" THEN r
    ELSE CASE r.v.t = "dict" -> IF k \in DOMAIN r.v.d THEN Ok(r.v.d[k]) ELSE Err("KeyError")
           [] OTHER          -> Err("TypeError")

\* v[0]: a dict parsed from JSON has str keys only, so 0 is never one of them.
PyGetFirst(r) ==
    IF r.e # "" THEN r
    ELSE CASE r.v.t = "list" -> IF Len(r.v.l) > 0 THEN Ok(r.v.l[1]) ELSE Err("IndexError")
           [] r.v.t = "dict" -> Err("KeyError")
           [] r.v.t = "str"  -> IF Len(r.v.s) > 0 THEN Ok(JStr(<<"<char>">>))
                                ELSE Err("IndexError")
           [] OTHER          -> Err("TypeError")

\* len(v) > 0
PyNonEmpty(r) ==
    IF r.e # "" THEN ErrBool(r.e)
    ELSE CASE r.v.t = "dict" -> OkBool(DOMAIN r.v.d # {})
           [] r.v.t = "list" -> OkBool(Len(r.v.l) > 0)
           [] r.v.t = "str"  -> OkBool(Len(r.v.s) > 0)
           [] OTHER          -> ErrBool("TypeError")

\* a and b, b evaluated only when a is true
PyAnd(a, b) == IF a.e # "" \/ ~a.b THEN a ELSE b

\* What the extraction code of an operation comes to: the value found, the
\* fall-through to the "Unexpected API response format" raise, or an exception
\* raised by the extraction itself.
Found(v) == [kind |-> "found", v |-> v]
Unexpected == [kind |-> "unexpected"]
Crashed(t) == [kind |-> "crashed", type |-> t]

\* The image-URL extraction shared by every image operation:
\*   if "output" in result and "choices" in result["output"]:
\*       choices = result["output"]["choices"]
\*       if len(choices) > 0 and "message" in choices[0] and "content" in choices[0]["message"]:
\*           content = choices[0]["message"]["content"]
\*           if len(content) > 0 and "image" in content[0]:
\*               return content[0]["image"]
ExtractImage(result) ==
    LET res     == Ok(result)
        c1      == PyAnd(PyContains("output", res),
                         PyContains("choices", PyGetKey(res, "output")))
        choices == PyGetKey(PyGetKey(res, "output"), "choices")
        c2      == PyAnd(PyNonEmpty(choices),
                     PyAnd(PyContains("message", PyGetFirst(choices)),
                           PyContains("content", PyGetKey(PyGetFirst(choices), "message"))))
        content == PyGetKey(PyGetKey(PyGetFirst(choices), "message"), "content")
        c3      == PyAnd(PyNonEmpty(content), PyContains("image", PyGetFirst(content)))
        image   == PyGetKey(PyGetFirst(content), "image")
    IN  IF c1.e # "" THEN Crashed(c1.e)
        ELSE IF ~c1.b THEN Unexpected
        ELSE IF choices.e # "" THEN Crashed(choices.e)
        ELSE IF c2.e # "" THEN Crashed(c2.e)
        ELSE IF ~c2.b THEN Unexpected
        ELSE IF content.e # "" THEN Crashed(content.e)
        ELSE IF c3.e # "" THEN Crashed(c3.e)
        ELSE IF ~c3.b THEN Unexpected
        ELSE IF image.e # "" THEN Crashed(image.e)
        ELSE Found(image.v)

\* The description extraction of QwenVLGenerator.describe:
\*   if "choices" in result and len(result["choices"]) > 0:
\*       choice = result["choices"][0]
\*       if "message" in choice and "content" in choice["message"]:
\*           return (choice["message"]["content"],)
ExtractDescriptionUnguarded(result) ==
    LET descr == PyGetKey(PyGetKey(PyGetFirst(PyGetKey(Ok(result), "choices")),
                                   "message"), "content")
    IN  IF descr.e # "" THEN Crashed(descr.e) ELSE Found(descr.v)
ExtractDescription(result) ==
    LET res    == Ok(result)
        c1     == PyAnd(PyContains("choices", res), PyNonEmpty(PyGetKey(res, "choices")))
        choice == PyGetFirst(PyGetKey(res, "choices"))
        c2     == PyAnd(PyContains("message", choice),
                        PyContains("content", PyGetKey(choice, "message")))
        descr  == PyGetKey(PyGetKey(choice, "message"), "content")
    IN  IF c1.e # "" THEN Crashed(c1.e)
        ELSE IF ~c1.b THEN Unexpected
        ELSE IF choice.e # "" THEN Crashed(choice.e)
        ELSE IF c2.e # "" THEN Crashed(c2.e)
        ELSE IF ~c2.b THEN Unexpected
        ELSE IF descr.e # "" THEN Crashed(descr.e)
        ELSE Found(descr.v)

(***************************************************************************)
(* The remote service: what a POST and a GET can produce.                  *)
(***************************************************************************)
ImageUrls == {"https://oss.example/a.png", "https://oss.example/b.png"}

WithOutput(o) == JDict([output |-> o])
WithChoices(cs) == WithOutput(JDict([choices |-> cs]))
WithChoice0(c) == WithChoices(JList(<<c>>))
WithMessage(m) == WithChoice0(JDict([message |-> m]))
WithContent(c) == WithMessage(JDict([content |-> c]))
WithContent0(c0) == WithContent(JList(<<c0>>))
DescribeChoice0(c) == JDict([choices |-> JList(<<c>>)])

\* The JSON bodies a 2xx response carries in this model: the well-formed
\* bodies of both endpoints and one body for each way a link of the path can
\* be absent (key missing, list empty, null or another value in its place).
Bodies == <<
    WithContent0(JDict([image |-> JStr(<<"https://oss.example/a.png">>)])),
    WithContent0(JDict([image |-> JStr(<<"https://oss.example/b.png">>)])),
    WithContent0(JDict([image |-> JNull])),
    JEmptyDict,
    WithOutput(JEmptyDict),
    WithChoices(JList(<<>>)),
    WithChoice0(JEmptyDict),
    WithMessage(JEmptyDict),
    WithContent(JList(<<>>)),
    WithContent0(JDict([text |-> JStr(<<"no picture">>)])),
    JNull,
    WithOutput(JNull),
    WithChoices(JNull),
    WithChoice0(JNull),
    WithMessage(JNull),
    WithContent(JNull),
    WithContent0(JNull),
    WithContent0(JStr(<<"an ", "image">>)),
    WithChoices(JDict([first |-> JEmptyDict])),
    DescribeChoice0(JDict([message |-> JDict([content |-> JStr(<<"a cat">>)])])),
    DescribeChoice0(JDict([message |-> JDict([content |-> JNull])])),
    JDict([choices |-> JList(<<>>)]),
    DescribeChoice0(JEmptyDict),
    DescribeChoice0(JDict([message |-> JEmptyDict])),
    JDict([choices |-> JNull]),
    DescribeChoice0(JNull),
    DescribeChoice0(JDict([message |-> JNull])) >>

ErrorStatuses == {400, 401, 403, 404, 429, 500, 503}
ErrorTexts == {"", "InvalidApiKey", "quota exceeded"}

Reason(status) ==
    CASE status = 200 -> "OK"
      [] status = 400 -> "Bad Request"
      [] status = 401 -> "Unauthorized"
      [] status = 403 -> "Forbidden"
      [] status = 404 -> "Not Found"
      [] status = 429 -> "Too Many Requests"
      [] status = 500 -> "Internal Server Error"
      [] status = 503 -> "Service Unavailable"

\* A response object.  json = 0: the body is not JSON; otherwise Bodies[json].
HttpResponse(status, text, json, content) ==
    [present |-> TRUE, status_code |-> status, reason |-> Reason(status),
     text |-> text, json |-> json, content |-> content]

NoContent == [fmt |-> "none"]

\* requests.post either raises without a response (connection, timeout) or
\* returns a response.  response.json() of a body that is not JSON raises
\* requests' JSONDecodeError (a RequestException) or the json module's (a
\* ValueError), depending on the installed requests.
Causes == {"ConnectionError", "Timeout"}
PostOutcomes ==
    {[present |-> FALSE, cause |-> c] : c \in Causes}
    \cup {HttpResponse(s, t, 0, NoContent) : s \in ErrorStatuses, t \in ErrorTexts}
    \cup {HttpResponse(200, "", j, NoContent) : j \in 1..Len(Bodies)}
    \cup {[present |-> TRUE, status_code |-> 200, reason |-> "OK", text |-> "<html>",
           json |-> 0, content |-> NoContent, jsonError |-> c] :
             c \in {"requests.JSONDecodeError", "json.JSONDecodeError"}}

\* The files an image URL can serve: PNGs of the modes PIL reports, and bytes
\* that are no image.  px are the 8-bit samples, row by row.
Png(mode, h, w, px) == [fmt |-> "png", mode |-> mode, h |-> h, w |-> w, px |-> px]
Garbage == [fmt |-> "garbage"]
Files == { Png("RGB", 1, 2, <<255, 0, 0, 0, 128, 255>>),
           Png("RGBA", 1, 1, <<1, 2, 3, 255>>),
           Png("L", 2, 1, <<0, 255>>),
           Garbage }
GetErrorStatuses == {400, 401, 403, 404, 500}
GetOutcomes ==
    {[present |-> FALSE, cause |-> "ConnectionError"]}
    \cup {HttpResponse(s, "AccessDenied", 0, NoContent) : s \in GetErrorStatuses}
    \cup {HttpResponse(200, "", 0, f) : f \in Files}

\* Response.raise_for_status raises HTTPError for 400 <= status < 600.
IsErrorStatus(status) == 400 <= status /\ status < 600

\* str(HTTPError): "<status> Client|Server Error: <reason> for url: <url>"
HTTPErrorOf(resp, url) ==
    ReqExc("HTTPError",
           <<Part("status", resp.status_code),
             Lit(IF resp.status_code < 500 THEN " Client Error: " ELSE " Server Error: "),
             Part("reason", resp.reason), Lit(" for url: "), Part("url", url)>>,
           resp)

\* The exception requests raises when no response arrives.
NoResponseExc(cause) == ReqExc(cause, <<Part("cause", cause)>>, NoResponse)

\* requests.get of a value that is no URL (None, a dict, ...): MissingSchema,
\* raised while the request is prepared, before anything is sent.
IsUrl(v) == v.t = "str" /\ Len(v.s) = 1 /\ v.s[1] \in ImageUrls
MissingSchemaExc == ReqExc("MissingSchema", <<Lit("Invalid URL: No scheme supplied")>>, NoResponse)

\* Image.open + np.array(image).astype(np.float32) / 255.0 + unsqueeze(0):
\* the array has a channel axis only for the multi-band modes.
Bands(mode) == CASE mode = "RGB" -> 3 [] mode = "RGBA" -> 4 [] OTHER -> 0
DecodeFile(f) ==
    IF f.fmt # "png"
    THEN [ok |-> FALSE, exc |-> Exc("UnidentifiedImageError", <<Lit("cannot identify image file")>>)]
    ELSE [ok |-> TRUE,
          tensor |-> [shape |-> IF Bands(f.mode) = 0 THEN <<1, f.h, f.w>>
                                ELSE <<1, f.h, f.w, Bands(f.mode)>>,
                      \* each value is the sample divided by 255
                      over255 |-> f.px]]

(***************************************************************************)
(* core/api_base.py and the QwenAPIBase of qwen_image_nodes.py             *)
(***************************************************************************)
Regions == {"international", "mainland_china"}

ENDPOINTS ==
    [international |-> "https://dashscope-intl.aliyuncs.com/api/v1/services/aigc/multimodal-generation/generation",
     mainland_china |-> "https://dashscope.aliyuncs.com/api/v1/services/aigc/multimodal-generation/generation"]

OPENAI_ENDPOINTS ==
    [international |-> "https://dashscope-intl.aliyuncs.com/compatible-mode/v1/chat/completions",
     mainland_china |-> "https://dashscope.aliyuncs.com/compatible-mode/v1/chat/completions"]

MONO_API_URL == "https://dashscope-intl.aliyuncs.com/api/v1/services/aigc/multimodal-generation/generation"

\* self.api_key = os.getenv(..); if self.api_key: self.api_key = self.api_key.strip().strip('"\'')
BaseKey(raw) == IF Truthy(raw) THEN StripKey(raw) ELSE raw

\* QwenAPIBase.check_api_key(region) of core/api_base.py: the key, or ValueError.
KeyOk(key) == [ok |-> TRUE, key |-> key]
KeyError_NotSet == [ok |-> FALSE, exc |-> Exc("ValueError", KeyNotSetMsg)]
CheckApiKeyIgnoringRegion(n, region) ==
    IF Truthy(n.api_key_china) THEN KeyOk(n.api_key_china)
    ELSE IF Truthy(n.api_key) THEN KeyOk(n.api_key)
    ELSE KeyError_NotSet
CheckApiKey(n, region) ==
    IF region = "mainland_china" /\ Truthy(n.api_key_china) THEN KeyOk(n.api_key_china)
    ELSE IF Truthy(n.api_key) THEN KeyOk(n.api_key)
    ELSE KeyError_NotSet

\* QwenAPIBase.check_api_key() of qwen_image_nodes.py
MonoCheckApiKey(n) == IF ~Truthy(n.api_key) THEN KeyError_NotSet ELSE KeyOk(n.api_key)

\* ENDPOINTS.get(region, ENDPOINTS["international"])
GetApiUrlInternational(region) == ENDPOINTS["international"]
GetApiUrl(region) ==
    IF region \in DOMAIN ENDPOINTS THEN ENDPOINTS[region] ELSE ENDPOINTS["international"]
GetOpenaiApiUrl(region) ==
    IF region \in DOMAIN OPENAI_ENDPOINTS THEN OPENAI_ENDPOINTS[region]
    ELSE OPENAI_ENDPOINTS["international"]

\* f"Bearer {api_key}" and the header sets of the two kinds of endpoint.
Bearer(key) == <<Lit("Bearer "), Part("key", key)>>
ImageHeaders(key) ==
    [Authorization |-> Bearer(key), ContentType |-> "application/json",
     XDashScopeAsync |-> "DISABLE"]
ChatHeaders(key) == [Authorization |-> Bearer(key), ContentType |-> "application/json"]

(***************************************************************************)
(* Image arguments.  A tensor of the host is abstracted to its identity    *)
(* and to what decides whether it can be encoded: a float tensor whose     *)
(* maximum exceeds 1.0 is not cast to 8 bits, and Image.fromarray rejects  *)
(* it.                                                                     *)
(***************************************************************************)
NoImage == [kind |-> "none"]
Tensor(id, max_le_1) == [kind |-> "tensor", id |-> id, max_le_1 |-> max_le_1]
IsGiven(img) == img.kind # "none"

\* The conversion shared by prepare_images and tensor_to_base64_image.
EncodeTensor(t) ==
    IF t.max_le_1 THEN [ok |-> TRUE, data |-> t.id]
    ELSE [ok |-> FALSE, exc |-> Exc("TypeError", <<Lit("Cannot handle this data type")>>)]

\* tensor_to_base64_image: a value that is no tensor is taken for a PIL image
\* and saved as it is; None has no save().
TensorToBase64Image(img) ==
    IF IsGiven(img) THEN EncodeTensor(img)
    ELSE [ok |-> FALSE,
          exc |-> Exc("AttributeError", <<Lit("'NoneType' object has no attribute 'save'")>>)]

PrepareImagesFirstOnly(images) ==
    IF images # <<>> /\ IsGiven(Head(images)) /\ EncodeTensor(Head(images)).ok
    THEN [ok |-> TRUE, list |-> <<EncodeTensor(Head(images)).data>>]
    ELSE [ok |-> TRUE, list |-> <<>>]
\* prepare_images: the data of every image that is not None, in order; the
\* first image that cannot be encoded raises.
RECURSIVE PrepareImages(_)
PrepareImages(images) ==
    IF images = <<>> THEN [ok |-> TRUE, list |-> <<>>]
    ELSE LET rest == PrepareImages(Tail(images))
             img  == Head(images)
         IN  IF ~IsGiven(img) THEN rest
             ELSE LET enc == EncodeTensor(img)
                  IN  IF ~enc.ok THEN [ok |-> FALSE, exc |-> enc.exc]
                      ELSE IF ~rest.ok THEN rest
                      ELSE [ok |-> TRUE, list |-> <<enc.data>> \o rest.list]

\* f"data:image/png;base64,{data}"; data may be None, printed as 'None'.
NoData == "None"
DataUri(data) == <<Lit("data:image/png;base64,"), Part("b64", data)>>

(***************************************************************************)
(* Payloads.                                                               *)
(***************************************************************************)
UserMessage(content) == <<[role |-> "user", content |-> content]>>

\* payload["parameters"] of text-to-image, as each implementation builds it.
T2IParametersSeedAlways(a) ==
    [size |-> a.size, prompt_extend |-> a.prompt_extend, watermark |-> a.watermark,
     seed |-> a.seed]
    @@ (IF a.negative_prompt # "" THEN [negative_prompt |-> a.negative_prompt] ELSE <<>>)
MonoT2IParameters(a) ==
    (IF a.negative_prompt # "" THEN [negative_prompt |-> a.negative_prompt] ELSE <<>>)
    @@ (IF a.seed > 0 THEN [seed |-> a.seed] ELSE <<>>)
    @@ [size |-> a.size, prompt_extend |-> a.prompt_extend, watermark |-> a.watermark]
RegionT2IParameters(a) ==
    (IF a.negative_prompt # "" THEN [negative_prompt |-> a.negative_prompt] ELSE <<>>)
    @@ (IF a.seed > 0 THEN [seed |-> a.seed] ELSE <<>>)
    @@ [size |-> a.size, prompt_extend |-> a.prompt_extend, watermark |-> a.watermark]
ClientT2IParameters(a) ==
    (IF a.negative_prompt # "" THEN [negative_prompt |-> a.negative_prompt] ELSE <<>>)
    @@ (IF a.seed > 0 THEN [seed |-> a.seed] ELSE <<>>)
    @@ [size |-> a.size, prompt_extend |-> a.prompt_extend, watermark |-> a.watermark]

T2IPayload(model, prompt, parameters) ==
    [model |-> model, input |-> [messages |-> UserMessage(<<[text |-> prompt]>>)],
     parameters |-> parameters]

\* payload["parameters"] of edit.
EditParameters(a) ==
    (IF a.negative_prompt # "" THEN [negative_prompt |-> a.negative_prompt] ELSE <<>>)
    @@ [watermark |-> a.watermark]

EditPayload(content, parameters) ==
    [model |-> "qwen-image-edit", input |-> [messages |-> UserMessage(content)],
     parameters |-> parameters]

\* list.insert(1, x)
Insert1(l, x) == <<Head(l), x>> \o Tail(l)

(***************************************************************************)
(* Error handling.                                                         *)
(***************************************************************************)
Msg401 == "API request failed: 401 Unauthorized. This usually means your API key is invalid or not properly configured. Error details: "
Msg403 == "API request failed: 403 Forbidden. This usually means your API key is valid but you don't have access to this model. Error details: "
Msg400 == "API request failed: 400 Bad Request. This usually means there's an issue with the request format. Error details: "

\* "API request failed: {status_code} {e.response.reason}. Response: {response_text}"
OtherStatusMsgStatusOnly(resp) ==
    <<Lit("API request failed: "), Part("status", resp.status_code)>>
OtherStatusMsg(resp) ==
    <<Lit("API request failed: "), Part("status", resp.status_code), Lit(" "),
      Part("reason", resp.reason), Lit(". Response: "), Part("text", resp.text)>>

\* The message for an exception e the handlers build, by e.response.
RequestFailedMsgNoBody(e) ==
    IF e.response.present
    THEN LET status_code == e.response.status_code
         IN  IF status_code = 401 THEN <<Lit(Msg401)>>
             ELSE IF status_code = 403 THEN <<Lit(Msg403)>>
             ELSE IF status_code = 400 THEN <<Lit(Msg400)>>
             ELSE <<Lit("API request failed: "), Part("status", status_code)>>
    ELSE <<Lit("API request failed: ")>>
RequestFailedMsg(e) ==
    IF e.response.present
    THEN LET status_code   == e.response.status_code
             response_text == e.response.text
         IN  IF status_code = 401 THEN <<Lit(Msg401), Part("text", response_text)>>
             ELSE IF status_code = 403 THEN <<Lit(Msg403), Part("text", response_text)>>
             ELSE IF status_code = 400 THEN <<Lit(Msg400), Part("text", response_text)>>
             ELSE OtherStatusMsg(e.response)
    ELSE <<Lit("API request failed: ")>> \o e.msg

\* QwenAPIClient._handle_request_exception: the exception it raises for e.
ClientErrorClassAllRequest(e) == "QwenAPIRequestError"
ClientErrorClass(e) ==
    IF e.response.present /\ e.response.status_code \in {401, 403}
    THEN "QwenAPIAuthenticationError"
    ELSE "QwenAPIRequestError"
HandleRequestException(e) == Exc(ClientErrorClass(e), RequestFailedMsg(e))

\* The except clauses of the monolithic and the region-aware nodes
\* (generate, edit and describe carry the same text): the RuntimeError raised
\* for an exception e that left the try block.
NodeHandleExceptionWrappingTwice(e) ==
    IF e.isRequestException
    THEN Exc("RuntimeError", <<Lit("Failed to process API response: ")>> \o RequestFailedMsg(e))
    ELSE Exc("RuntimeError", <<Lit("Failed to process API response: ")>> \o e.msg)
NodeHandleException(e) ==
    IF e.isRequestException
    THEN Exc("RuntimeError", RequestFailedMsg(e))
    ELSE Exc("RuntimeError", <<Lit("Failed to process API response: ")>> \o e.msg)

\* The except clauses of the client-based nodes.
FailedTo(op) == IF op = "t2i" THEN "Failed to generate image: " ELSE "Failed to edit image: "
ClientNodeHandleExceptionGeneric(op, e) ==
    Exc("RuntimeError", <<Lit(FailedTo(op))>> \o e.msg)
ClientNodeHandleException(op, e) ==
    IF e.type \in QwenAPIErrorClasses
    THEN Exc("RuntimeError", <<Lit("Qwen API error: ")>> \o e.msg)
    ELSE Exc("RuntimeError", <<Lit(FailedTo(op))>> \o e.msg)

\* "Unexpected API response format: {result}"
UnexpectedFormatMsg(json) == <<Lit("Unexpected API response format: "), Part("result", json)>>

\* The exceptions raised, in order, when e leaves the try block of a node's
\* own code (the last one is what the invocation raises).
InNodeTry(impl, op, e) ==
    IF impl = "client" THEN <<e, ClientNodeHandleException(op, e)>>
    ELSE <<e, NodeHandleException(e)>>

\* The same for an exception raised inside the try block of QwenAPIClient,
\* which the client-based node calls from its own try block.
InClientTry(op, e) ==
    IF e.isRequestException
    THEN LET q == HandleRequestException(e)
         IN  <<e, q, ClientNodeHandleException(op, q)>>
    ELSE <<e, ClientNodeHandleException(op, e)>>

\* An exception raised by the code that reads the POST response.
InPostTry(impl, op, e) ==
    IF impl = "client" THEN InClientTry(op, e) ELSE InNodeTry(impl, op, e)

(***************************************************************************)
(* Node construction.                                                      *)
(***************************************************************************)
Impls == {"mono", "region", "client"}

\* The node classes of each implementation, by operation.
OpsOf(impl) ==
    CASE impl = "mono"   -> {"t2i", "edit"}
      [] impl = "region" -> {"t2i", "edit", "describe"}
      [] impl = "client" -> {"t2i", "edit"}

\* QwenAPIClient.__init__: the configuration and the session headers.
NoClient == [present |-> FALSE]
QwenAPIClientNoAsyncHeader(config) ==
    [present |-> TRUE, api_key |-> config.api_key, headers |-> ChatHeaders(config.api_key),
     t2i_api_url |-> T2I_API_URL, i2i_api_url |-> I2I_API_URL]
QwenAPIClient(config) ==
    [present |-> TRUE, api_key |-> config.api_key, headers |-> ImageHeaders(config.api_key),
     t2i_api_url |-> T2I_API_URL, i2i_api_url |-> I2I_API_URL]

\* __init__ of the client-based nodes: any exception of the configuration
\* is caught and leaves api_client = None.
ClientNodeInit(e) ==
    LET config == QwenAPIConfig(e)
    IN  IF config.ok THEN QwenAPIClient(config) ELSE NoClient

ModelOf(op) == IF op = "t2i" THEN "qwen-image" ELSE IF op = "edit" THEN "qwen-image-edit" ELSE ""

\* The fields of a node after __init__.
NewNode(impl, op, e) ==
    CASE impl = "mono" ->
            [impl |-> impl, op |-> op, api_key |-> BaseKey(e.DASHSCOPE_API_KEY),
             api_url |-> MONO_API_URL, model |-> ModelOf(op)]
      [] impl = "region" ->
            [impl |-> impl, op |-> op, api_key |-> BaseKey(e.DASHSCOPE_API_KEY),
             api_key_china |-> BaseKey(e.DASHSCOPE_API_KEY_CHINA), model |-> ModelOf(op)]
      [] impl = "client" ->
            [impl |-> impl, op |-> op, api_client |-> ClientNodeInit(e)]

(***************************************************************************)
(* The code of each operation up to its POST: the request it prepares, or  *)
(* the exceptions raised (in order) when it fails before posting.          *)
(***************************************************************************)
Ready(url, headers, payload) ==
    [ok |-> TRUE, request |-> [present |-> TRUE, url |-> url, headers |-> headers,
                               payload |-> payload]]
Fails(chain) == [ok |-> FALSE, chain |-> chain]

NotInitialized == Exc("RuntimeError", <<Lit("API client not initialized. Check your configuration.")>>)
NotSubscriptable == Exc("TypeError", <<Lit("'NoneType' object is not subscriptable")>>)

\* qwen_image_nodes.py, QwenT2IGenerator.generate
MonoT2IPreflight(n, a) ==
    LET k == MonoCheckApiKey(n)
    IN  IF ~k.ok THEN Fails(<<k.exc>>)
        ELSE Ready(n.api_url, ImageHeaders(n.api_key),
                   T2IPayload(n.model, a.prompt, MonoT2IParameters(a)))

\* qwen_image/t2i_generator.py, QwenT2IGenerator.generate.  The debug line
\* that prints the request headers slices self.api_key, not the key chosen
\* for the region.
RegionT2IPreflight(n, a) ==
    LET k == CheckApiKey(n, a.region)
    IN  IF ~k.ok THEN Fails(<<k.exc>>)
        ELSE IF n.api_key = None THEN Fails(<<NotSubscriptable>>)
        ELSE Ready(GetApiUrl(a.region), ImageHeaders(k.key),
                   T2IPayload(n.model, a.prompt, RegionT2IParameters(a)))

\* qwen_image/nodes/t2i_generator.py, QwenT2IGenerator.generate, with the
\* request QwenAPIClient.generate_image builds.
ClientT2IPreflightUnguarded(n, a) ==
    Ready(T2I_API_URL, ImageHeaders(None),
          T2IPayload("qwen-image", a.prompt, ClientT2IParameters(a)))
ClientT2IPreflight(n, a) ==
    IF ~n.api_client.present THEN Fails(<<NotInitialized>>)
    ELSE Ready(n.api_client.t2i_api_url, n.api_client.headers,
               T2IPayload("qwen-image", a.prompt, ClientT2IParameters(a)))

\* qwen_image_nodes.py, QwenI2IGenerator.edit.  The debug line that prints
\* the prompt reads content[1]['text'], which is the mask entry when a mask
\* was inserted.
MonoEditPreflight(n, a) ==
    LET k          == MonoCheckApiKey(n)
        image_data == PrepareImages(<<a.image>>)
        image_b64  == IF image_data.list # <<>> THEN image_data.list[1] ELSE NoData
        content0   == <<[image |-> DataUri(image_b64)], [text |-> a.prompt]>>
        mask_data  == PrepareImages(<<a.mask_image>>)
        content    == IF IsGiven(a.mask_image) /\ mask_data.list # <<>>
                      THEN Insert1(content0, [mask |-> DataUri(mask_data.list[1])])
                      ELSE content0
    IN  IF ~k.ok THEN Fails(<<k.exc>>)
        ELSE IF ~image_data.ok THEN Fails(<<image_data.exc>>)
        ELSE IF IsGiven(a.mask_image) /\ ~mask_data.ok THEN Fails(<<mask_data.exc>>)
        ELSE IF "text" \notin DOMAIN content[2]
             THEN Fails(<<Exc("KeyError", <<Lit("'text'")>>)>>)
        ELSE Ready(n.api_url, ImageHeaders(n.api_key),
                   EditPayload(content, EditParameters(a)))

\* qwen_image/i2i_generator.py, QwenI2IGenerator.edit
RegionEditPreflight(n, a) ==
    LET k          == CheckApiKey(n, a.region)
        to_process == SelectSeq(<<a.image1, a.image2, a.image3>>, IsGiven)
        image_data == PrepareImages(to_process)
        content    == [i \in 1..Len(image_data.list) |-> [image |-> DataUri(image_data.list[i])]]
                      \o <<[text |-> a.prompt]>>
    IN  IF ~k.ok THEN Fails(<<k.exc>>)
        ELSE IF to_process = <<>>
             THEN Fails(<<Exc("ValueError", <<Lit("At least one image must be provided")>>)>>)
        ELSE IF ~image_data.ok THEN Fails(<<image_data.exc>>)
        ELSE Ready(GetApiUrl(a.region), ImageHeaders(k.key),
                   EditPayload(content, EditParameters(a)))

\* qwen_image/nodes/i2i_editor.py, QwenI2IGenerator.edit, with the request
\* QwenAPIClient.edit_image builds.  The conversions run inside the node's
\* try block.
ClientEditPreflight(n, a) ==
    LET image_b64 == TensorToBase64Image(a.image)
        mask_b64  == TensorToBase64Image(a.mask_image)
        content0  == <<[image |-> DataUri(image_b64.data)], [text |-> a.prompt]>>
        content   == IF IsGiven(a.mask_image)
                     THEN Insert1(content0, [mask |-> DataUri(mask_b64.data)])
                     ELSE content0
    IN  IF ~n.api_client.present THEN Fails(<<NotInitialized>>)
        ELSE IF ~image_b64.ok THEN Fails(InNodeTry("client", "edit", image_b64.exc))
        ELSE IF IsGiven(a.mask_image) /\ ~mask_b64.ok
             THEN Fails(InNodeTry("client", "edit", mask_b64.exc))
        ELSE Ready(n.api_client.i2i_api_url, n.api_client.headers,
                   EditPayload(content, EditParameters(a)))

\* qwen/vl_generator.py, QwenVLGenerator.describe
DescribePreflight(n, a) ==
    LET k          == CheckApiKey(n, a.region)
        image_data == PrepareImages(<<a.image>>)
        image_part == IF image_data.list # <<>>
                      THEN <<[type |-> "image_url",
                              image_url |-> [url |-> DataUri(image_data.list[1])]]>>
                      ELSE <<>>
        content    == image_part \o <<[type |-> "text", text |-> a.prompt]>>
    IN  IF ~k.ok THEN Fails(<<k.exc>>)
        ELSE IF ~image_data.ok THEN Fails(<<image_data.exc>>)
        ELSE Ready(GetOpenaiApiUrl(a.region), ChatHeaders(k.key),
                   [model |-> a.model, messages |-> UserMessage(content), stream |-> a.stream])

PreflightOf(n, c) ==
    CASE n.impl = "mono"   /\ c.op = "t2i"      -> MonoT2IPreflight(n, c.args)
      [] n.impl = "mono"   /\ c.op = "edit"     -> MonoEditPreflight(n, c.args)
      [] n.impl = "region" /\ c.op = "t2i"      -> RegionT2IPreflight(n, c.args)
      [] n.impl = "region" /\ c.op = "edit"     -> RegionEditPreflight(n, c.args)
      [] n.impl = "region" /\ c.op = "describe" -> DescribePreflight(n, c.args)
      [] n.impl = "client" /\ c.op = "t2i"      -> ClientT2IPreflight(n, c.args)
      [] n.impl = "client" /\ c.op = "edit"     -> ClientEditPreflight(n, c.args)

(***************************************************************************)
(* Reading the POST response, inside the try block:                        *)
(*   response.raise_for_status(); result = response.json(); <extraction>   *)
(***************************************************************************)
Thrown(e) == [thrown |-> TRUE, exc |-> e]
Value(v) == [thrown |-> FALSE, v |-> v]

JsonErrorOf(r) ==
    IF r.jsonError = "requests.JSONDecodeError"
    THEN ReqExc("JSONDecodeError", <<Lit("Expecting value")>>, NoResponse)
    ELSE Exc("JSONDecodeError", <<Lit("Expecting value")>>)

\* The class raised on the "Unexpected API response format" path.
UnexpectedFormatClass(impl) == IF impl = "client" THEN "QwenAPIResponseError" ELSE "ValueError"

PostResult(impl, op, r, url) ==
    IF ~r.present THEN Thrown(NoResponseExc(r.cause))
    ELSE IF IsErrorStatus(r.status_code) THEN Thrown(HTTPErrorOf(r, url))
    ELSE IF r.json = 0 THEN Thrown(JsonErrorOf(r))
    ELSE LET x == IF op = "describe" THEN ExtractDescription(Bodies[r.json])
                  ELSE ExtractImage(Bodies[r.json])
         IN  CASE x.kind = "found"      -> Value(x.v)
               [] x.kind = "unexpected" ->
                    Thrown(Exc(UnexpectedFormatClass(impl), UnexpectedFormatMsg(r.json)))
               [] x.kind = "crashed"    ->
                    Thrown(Exc(x.type, <<Lit("raised by the extraction")>>))

(***************************************************************************)
(* The state machine: one node object, constructed from the environment    *)
(* and then invoked repeatedly; an invocation runs from its preflight over *)
(* the POST and the reading of its response to the GET and the decoding.   *)
(***************************************************************************)
NoNode == [impl |-> "none", op |-> "none"]
NoCall == [op |-> "none"]
NoRequest == [present |-> FALSE]
Unset == [t |-> "unset"]
NotConstructed == [state |-> "none"]

NoReturn == [kind |-> "none"]
Returned(v) == [kind |-> "return", value |-> v]
RaisedExc(e) == [kind |-> "raise", exc |-> e]

Last(seq) == seq[Len(seq)]

\* The raw values of DASHSCOPE_API_KEY the state machine is run with: unset,
\* empty, blank, a key in quotes with a trailing blank.
EnvValues == {None, <<>>, <<SP>>, <<DQ, "k", DQ, SP>>}
ChinaValues == {None, <<"c">>}
Envs == [DASHSCOPE_API_KEY : EnvValues, DASHSCOPE_API_KEY_CHINA : ChinaValues]

SIZE_OPTIONS == {"1664*928", "1472*1140", "1328*1328", "1140*1472", "928*1664"}
MAX_SEED == 2147483647

T2IArgs(sizes, negs, flags, seeds) ==
    [prompt : {"a red bicycle"}, size : sizes, negative_prompt : negs,
     prompt_extend : flags, watermark : flags, seed : seeds]
WithRegion(args) == {a @@ [region |-> r] : a \in args, r \in Regions}

TensorA == Tensor("A", TRUE)
TensorB == Tensor("B", TRUE)
TensorC == Tensor("C", TRUE)
TensorM == Tensor("M", TRUE)
TensorOver == Tensor("X", FALSE)

EditArgs ==
    [prompt : {"make it blue"}, image : {NoImage, TensorA, TensorOver},
     mask_image : {NoImage, TensorM}, negative_prompt : {""}, watermark : {FALSE}]
RegionEditArgs ==
    [prompt : {"make it blue"}, image1 : {NoImage, TensorA}, image2 : {NoImage, TensorB},
     image3 : {NoImage, TensorC}, negative_prompt : {""}, watermark : {FALSE},
     region : Regions]
DescribeArgs ==
    [prompt : {"What is in this picture?"}, image : {NoImage, TensorA, TensorOver},
     model : {"qwen-vl-max"}, region : Regions, stream : {FALSE}]

\* The arguments the state machine invokes a node with.
ArgsOf(impl, op) ==
    CASE op = "t2i" /\ impl = "region" ->
            WithRegion(T2IArgs({"1328*1328"}, {"", "blurry"}, {FALSE}, {0, 42}))
      [] op = "t2i" /\ impl # "region" ->
            T2IArgs({"1328*1328"}, {"", "blurry"}, {FALSE}, {0, 42})
      [] op = "edit" /\ impl = "region" -> RegionEditArgs
      [] op = "edit" /\ impl # "region" -> EditArgs
      [] op = "describe" -> DescribeArgs

NoCodec == [stage |-> "none"]

Idle ==
    /\ codec = NoCodec
    /\ stdout = <<>>
    /\ request = NoRequest
    /\ response = NoResponse
    /\ image_url = Unset
    /\ download = NoResponse
    /\ netlog = <<>>
    /\ raised = <<>>
    /\ ret = NoReturn

Init ==
    /\ env \in Envs
    /\ cfg = NotConstructed
    /\ node = NoNode
    /\ pc = "new"
    /\ call = NoCall
    /\ ncalls = 0
    /\ Idle

\* Node.__init__()
Construct(impl, op) ==
    /\ pc = "new"
    /\ node' = NewNode(impl, op, env)
    /\ pc' = "idle"
    /\ UNCHANGED <<stdout, codec, env, cfg, call, request, response, image_url, download, netlog,
                   raised, ret, ncalls>>

InvokeCachingKey ==
    /\ pc \in {"idle", "done"}
    /\ ncalls < MaxCalls
    /\ \E a \in ArgsOf(node.impl, node.op) :
          /\ call' = [op |-> node.op, args |-> a]
          /\ node' = IF node.impl = "region" /\ a.region = "mainland_china"
                        /\ Truthy(node.api_key_china)
                     THEN [node EXCEPT !.api_key = node.api_key_china]
                     ELSE node
    /\ ncalls' = ncalls + 1
    /\ pc' = "preflight"
    /\ request' = NoRequest
    /\ response' = NoResponse
    /\ image_url' = Unset
    /\ download' = NoResponse
    /\ netlog' = <<>>
    /\ raised' = <<>>
    /\ ret' = NoReturn
    /\ UNCHANGED <<stdout, codec, env, cfg>>
\* The host calls the node's FUNCTION with arguments a.
Invoke ==
    /\ pc \in {"idle", "done"}
    /\ ncalls < MaxCalls
    /\ \E a \in ArgsOf(node.impl, node.op) : call' = [op |-> node.op, args |-> a]
    /\ ncalls' = ncalls + 1
    /\ pc' = "preflight"
    /\ request' = NoRequest
    /\ response' = NoResponse
    /\ image_url' = Unset
    /\ download' = NoResponse
    /\ netlog' = <<>>
    /\ raised' = <<>>
    /\ ret' = NoReturn
    /\ UNCHANGED <<stdout, codec, env, cfg, node>>

\* Everything the operation does before requests.post / session.post.
Preflight ==
    /\ pc = "preflight"
    /\ LET p == PreflightOf(node, call)
       IN  IF p.ok
           THEN /\ request' = p.request
                /\ pc' = "post"
                /\ UNCHANGED <<raised, ret>>
           ELSE /\ raised' = p.chain
                /\ ret' = RaisedExc(Last(p.chain))
                /\ pc' = "done"
                /\ UNCHANGED request
    /\ UNCHANGED <<stdout, codec, env, cfg, node, call, response, image_url, download, netlog, ncalls>>

\* The network events of the one requests.post call and of the one
\* requests.get call of an invocation.
PostEventsWithRetry(url) == <<[method |-> "POST", url |-> url], [method |-> "POST", url |-> url]>>
PostEvents(url) == <<[method |-> "POST", url |-> url]>>
GetEvents(url) == <<[method |-> "GET", url |-> url]>>

\* requests.post(api_url, headers=headers, json=payload)
Post ==
    /\ pc = "post"
    /\ \E o \in PostOutcomes : response' = o
    /\ netlog' = netlog \o PostEvents(request.url)
    /\ pc' = "parse"
    /\ UNCHANGED <<stdout, codec, env, cfg, node, call, request, image_url, download, raised, ret, ncalls>>

\* raise_for_status, json() and the extraction, with the except clauses.
Parse ==
    /\ pc = "parse"
    /\ LET res == PostResult(node.impl, call.op, response, request.url)
       IN  IF res.thrown
           THEN /\ raised' = InPostTry(node.impl, call.op, res.exc)
                /\ ret' = RaisedExc(Last(raised'))
                /\ pc' = "done"
                /\ UNCHANGED image_url
           ELSE IF call.op = "describe"
           THEN /\ ret' = Returned(<<res.v>>)
                /\ pc' = "done"
                /\ UNCHANGED <<raised, image_url>>
           ELSE /\ image_url' = res.v
                /\ pc' = "get"
                /\ UNCHANGED <<raised, ret>>
    /\ UNCHANGED <<stdout, codec, env, cfg, node, call, request, response, download, netlog, ncalls>>

\* requests.get(image_url)
Get ==
    /\ pc = "get"
    /\ IF ~IsUrl(image_url)
       THEN /\ raised' = InNodeTry(node.impl, call.op, MissingSchemaExc)
            /\ ret' = RaisedExc(Last(raised'))
            /\ pc' = "done"
            /\ UNCHANGED <<download, netlog>>
       ELSE /\ \E o \in GetOutcomes : download' = o
            /\ netlog' = netlog \o GetEvents(image_url.s[1])
            /\ pc' = "decode"
            /\ UNCHANGED <<raised, ret>>
    /\ UNCHANGED <<stdout, codec, env, cfg, node, call, request, response, image_url, ncalls>>

\* image_response.raise_for_status(), Image.open, the tensor, the return.
DecodeResultKeepingUrl(o, url) ==
    IF o.present /\ ~IsErrorStatus(o.status_code) /\ DecodeFile(o.content).ok
    THEN Value(DecodeFile(o.content).tensor)
    ELSE Value([shape |-> <<1, 0, 0, 3>>, over255 |-> <<>>])
DecodeResult(o, url) ==
    IF ~o.present THEN Thrown(NoResponseExc(o.cause))
    ELSE IF IsErrorStatus(o.status_code) THEN Thrown(HTTPErrorOf(o, url))
    ELSE LET d == DecodeFile(o.content)
         IN  IF d.ok THEN Value(d.tensor) ELSE Thrown(d.exc)

Decode ==
    /\ pc = "decode"
    /\ LET res == DecodeResult(download, image_url.s[1])
       IN  IF res.thrown
           THEN /\ raised' = InNodeTry(node.impl, call.op, res.exc)
                /\ ret' = RaisedExc(Last(raised'))
           ELSE /\ ret' = Returned(<<res.v, image_url>>)
                /\ UNCHANGED raised
    /\ pc' = "done"
    /\ UNCHANGED <<stdout, codec, env, cfg, node, call, request, response, image_url, download,
                   netlog, ncalls>>

Next ==
    \/ \E impl \in Impls : \E op \in OpsOf(impl) : Construct(impl, op)
    \/ Invoke
    \/ Preflight
    \/ Post
    \/ Parse
    \/ Get
    \/ Decode

Spec == Init /\ [][Next]_vars

(***************************************************************************)
(* The construction of a QwenAPIConfig by itself (as the test                *)
(* test_config_without_api_key does), for every raw value of               *)
(* DASHSCOPE_API_KEY up to MaxKeyLen characters.                           *)
(***************************************************************************)
RawValues == {None} \cup StringsUpTo(MaxKeyLen)

InitConfig ==
    /\ env \in [DASHSCOPE_API_KEY : RawValues, DASHSCOPE_API_KEY_CHINA : {None}]
    /\ cfg = NotConstructed
    /\ node = NoNode
    /\ pc = "config"
    /\ call = NoCall
    /\ ncalls = 0
    /\ Idle

\* QwenAPIConfig()
ConstructConfig ==
    /\ pc = "config"
    /\ cfg = NotConstructed
    /\ cfg' = [state |-> "done", result |-> QwenAPIConfig(env)]
    /\ UNCHANGED <<stdout, codec, env, node, pc, call, request, response, image_url, download, netlog,
                   raised, ret, ncalls>>

\* QwenAPIBase(): the node classes read and strip the key in the same way.
ConstructBase ==
    /\ pc = "config"
    /\ node = NoNode
    /\ node' = NewNode("region", "t2i", env)
    /\ UNCHANGED <<stdout, codec, env, cfg, pc, call, request, response, image_url, download, netlog,
                   raised, ret, ncalls>>

NextConfig == ConstructConfig \/ ConstructBase

SpecConfig == InitConfig /\ [][NextConfig]_vars

(***************************************************************************)
(* The request building of every operation over the whole range of its     *)
(* arguments, on a node constructed with both keys set.                    *)
(***************************************************************************)
BothKeys == [DASHSCOPE_API_KEY |-> <<"k">>, DASHSCOPE_API_KEY_CHINA |-> <<"c">>]

Seeds == {0, 1, 42, MAX_SEED}

FullArgsOf(impl, op) ==
    CASE op = "t2i" /\ impl = "region" ->
            WithRegion(T2IArgs(SIZE_OPTIONS, {"", "blurry"}, BOOLEAN, Seeds))
      [] op = "t2i" /\ impl # "region" ->
            T2IArgs(SIZE_OPTIONS, {"", "blurry"}, BOOLEAN, Seeds)
      [] OTHER -> ArgsOf(impl, op)

InitPayload ==
    /\ env = BothKeys
    /\ cfg = NotConstructed
    /\ \E impl \in Impls : \E op \in OpsOf(impl) :
          /\ node = NewNode(impl, op, env)
          /\ \E a \in FullArgsOf(impl, op) : call = [op |-> op, args |-> a]
    /\ pc = "preflight"
    /\ ncalls = 1
    /\ Idle

NextPayload == Preflight

SpecPayload == InitPayload /\ [][NextPayload]_vars

(***************************************************************************)
(* The image codec on concrete tensors: tensor_to_base64_image and         *)
(* base64_to_tensor_image of utils/image_utils.py (prepare_images of the   *)
(* base classes converts in the same way).  A tensor is its shape and its  *)
(* values in row-major order; a value v is held as the integer v * 510, so *)
(* that k/255 is 2k and halves are integers.                               *)
(***************************************************************************)
MaxDim == 2

One == 2 * 255

FloatTensor(shape, vals) == [shape |-> shape, dtype |-> "float32", vals |-> vals]

RECURSIVE Product(_)
Product(shape) == IF shape = <<>> THEN 1 ELSE Head(shape) * Product(Tail(shape))

RECURSIVE SeqMax(_)
SeqMax(vals) ==
    IF Len(vals) = 1 THEN vals[1]
    ELSE LET m == SeqMax(Tail(vals)) IN IF Head(vals) > m THEN Head(vals) ELSE m

\* ndarray.squeeze(): every axis of length 1 goes, wherever it is.
IsNotOne(d) == d # 1
Squeeze(shape) == SelectSeq(shape, IsNotOne)

\* (image_np * 255).astype(np.uint8): the product, truncated.
ToUint8(v) == (v * 255) \div One

RescaleNever(t) == t
\* if image_np.max() <= 1.0: image_np = (image_np * 255).astype(np.uint8)
Rescale(t) ==
    IF SeqMax(t.vals) <= One
    THEN [shape |-> t.shape, dtype |-> "uint8",
          vals |-> [i \in 1..Len(t.vals) |-> ToUint8(t.vals[i])]]
    ELSE t

\* Image.fromarray(a): one or two axes give a single-band image (8-bit "L"
\* or float "F"), three axes of 8-bit values with 3 or 4 channels "RGB" or
\* "RGBA"; anything else is refused.
FromArray(a) ==
    LET nd   == Len(a.shape)
        mode == IF nd = 3 THEN (IF a.shape[3] = 3 THEN "RGB" ELSE "RGBA")
                ELSE IF a.dtype = "uint8" THEN "L" ELSE "F"
    IN  IF nd = 3 /\ (a.dtype # "uint8" \/ a.shape[3] \notin {3, 4})
        THEN [ok |-> FALSE, exc |-> Exc("TypeError", <<Lit("Cannot handle this data type")>>)]
        ELSE IF nd > 3
        THEN [ok |-> FALSE, exc |-> Exc("ValueError", <<Lit("Too many dimensions")>>)]
        ELSE IF nd = 0
        THEN [ok |-> FALSE, exc |-> Exc("IndexError", <<Lit("tuple index out of range")>>)]
        ELSE [ok |-> TRUE,
              image |-> [mode |-> mode,
                         h |-> a.shape[1],
                         w |-> IF nd = 1 THEN 1 ELSE a.shape[2],
                         px |-> a.vals]]

\* pil_image.save(buffer, format="PNG"): PNG holds no float image.
SavePng(image) ==
    IF image.mode = "F"
    THEN [ok |-> FALSE, exc |-> Exc("OSError", <<Lit("cannot write mode F as PNG")>>)]
    ELSE [ok |-> TRUE, file |-> Png(image.mode, image.h, image.w, image.px)]

\* base64.b64encode(..).decode() and base64.b64decode(..)
B64Encode(file) == [b64 |-> file]
B64Decode(str) == str.b64

\* The array that reaches Image.fromarray.
ArrayOf(t) == [Rescale(t) EXCEPT !.shape = Squeeze(t.shape)]

\* tensor_to_base64_image(tensor)
tensor_to_base64_image(t) ==
    LET image == FromArray(ArrayOf(t))
    IN  IF ~image.ok THEN image
        ELSE LET saved == SavePng(image.image)
             IN  IF ~saved.ok THEN saved
                 ELSE [ok |-> TRUE, data |-> B64Encode(saved.file)]

\* base64_to_tensor_image(base64_string)
base64_to_tensor_image(str) == DecodeFile(B64Decode(str))

(***************************************************************************)
(* The codec run on its own: a tensor is encoded, and what was encoded is  *)
(* decoded again.                                                          *)
(***************************************************************************)
\* The shapes [1,H,W,C] and [H,W,C] of an image tensor of more than one value.
Dims == {<<h, w, c>> : h \in 1..MaxDim, w \in 1..MaxDim, c \in {1, 3}} \ {<<1, 1, 1>>}
Shapes == Dims \cup {<<1>> \o d : d \in Dims}

\* The values 0, 128/255 and 1, the value 0.5 that is no multiple of 1/255,
\* and the values 1.5, 200 and 255 of a tensor on the scale of 0..255.
SampleValues == {0, 2 * 128, One, 255, 3 * 255, 200 * One, 255 * One}

Tensors ==
    {FloatTensor(shape, [i \in 1..Product(shape) |-> IF i % 2 = 1 THEN a ELSE b]) :
        shape \in Shapes, a \in SampleValues, b \in SampleValues}

InitCodec ==
    /\ env = [DASHSCOPE_API_KEY |-> None, DASHSCOPE_API_KEY_CHINA |-> None]
    /\ cfg = NotConstructed
    /\ node = NoNode
    /\ pc = "codec"
    /\ call = NoCall
    /\ ncalls = 0
    /\ request = NoRequest
    /\ response = NoResponse
    /\ image_url = Unset
    /\ download = NoResponse
    /\ netlog = <<>>
    /\ raised = <<>>
    /\ ret = NoReturn
    /\ stdout = <<>>
    /\ \E t \in Tensors : codec = [stage |-> "tensor", tensor |-> t]

\* tensor_to_base64_image(tensor)
EncodeStep ==
    /\ pc = "codec"
    /\ codec.stage = "tensor"
    /\ codec' = [stage |-> "encoded", tensor |-> codec.tensor,
                 array |-> ArrayOf(codec.tensor),
                 encoded |-> tensor_to_base64_image(codec.tensor)]
    /\ UNCHANGED <<stdout, env, cfg, node, pc, call, request, response, image_url,
                   download, netlog, raised, ret, ncalls>>

\* base64_to_tensor_image(base64_string) of what was encoded
DecodeStep ==
    /\ pc = "codec"
    /\ codec.stage = "encoded"
    /\ codec.encoded.ok
    /\ codec' = [codec EXCEPT !.stage = "decoded"]
                @@ [decoded |-> base64_to_tensor_image(codec.encoded.data)]
    /\ UNCHANGED <<stdout, env, cfg, node, pc, call, request, response, image_url,
                   download, netlog, raised, ret, ncalls>>

NextCodec == EncodeStep \/ DecodeStep

SpecCodec == InitCodec /\ [][NextCodec]_vars

(***************************************************************************)
(* The debug output about the API key: what core/api_base.py prints when   *)
(* it is imported, what QwenAPIBase.__init__ prints, and what generate and *)
(* edit of the region-aware nodes print before they post.  A line is the   *)
(* sequence of its segments; the slices of a key are "head" and "tail"     *)
(* parts.                                                                  *)
(***************************************************************************)
MaxLogKeyLen == 13

\* key[:8] and key[-4:]
First8(key) == SubSeq(key, 1, IF Len(key) < 8 THEN Len(key) ELSE 8)
Last4(key) == SubSeq(key, IF Len(key) < 4 THEN 1 ELSE Len(key) - 3, Len(key))

\* print(f"API Key loaded: {api_key[:8]}...{api_key[-4:]}")
KeyLoadedLine(key) ==
    <<Lit("API Key loaded: "), Part("head", First8(key)), Lit("..."),
      Part("tail", Last4(key))>>

\* The module-level code of core/api_base.py.
ImportLines(e) ==
    IF Truthy(e.DASHSCOPE_API_KEY)
    THEN <<KeyLoadedLine(StripKey(e.DASHSCOPE_API_KEY))>>
    ELSE <<<<Lit("API Key not found in environment variables")>>>>

\* {key[:8] if key else 'None'}...{key[-4:] if key else ''}
KeyOrNone(key) ==
    IF Truthy(key) THEN <<Part("head", First8(key)), Lit("..."), Part("tail", Last4(key))>>
    ELSE <<Lit("None"), Lit("..."), Lit("")>>

\* The print of QwenAPIBase.__init__.
InitLine(n) ==
    <<Lit("Initialized QwenAPIBase with API keys: international=")>> \o KeyOrNone(n.api_key)
    \o <<Lit(", china=")>> \o KeyOrNone(n.api_key_china)

\* print(f"Using API key: {api_key[:8]}...{api_key[-4:]}")
UsingKeyLine(key) ==
    <<Lit("Using API key: "), Part("head", First8(key)), Lit("..."), Part("tail", Last4(key))>>

\* print(f"Request headers: {{'Authorization': 'Bearer {key[:8]}...', ...}}")
HeadersLine(key) ==
    <<Lit("Request headers: {'Authorization': 'Bearer "), Part("head", First8(key)),
      Lit("...', 'Content-Type': 'application/json', 'X-DashScope-Async': 'DISABLE'}")>>

\* The lines generate (op "t2i") and edit print about the key: nothing when
\* check_api_key raises; generate slices self.api_key for the headers line
\* and raises there when it is None, edit slices the key that was chosen.
GenerateLines(n, op, region) ==
    LET k == CheckApiKey(n, region)
    IN  IF ~k.ok THEN <<>>
        ELSE <<UsingKeyLine(k.key)>>
             \o (IF op = "edit" THEN <<HeadersLine(k.key)>>
                 ELSE IF n.api_key = None THEN <<>>
                 ELSE <<HeadersLine(n.api_key)>>)

\* The keys of the debug runs: every length up to MaxLogKeyLen, the first,
\* the ninth and the last character being either of two characters and the
\* other characters the same.
DebugKeys ==
    UNION {{[i \in 1..n |-> IF i = 1 THEN a ELSE IF i = 9 THEN b ELSE IF i = n THEN c ELSE "k"] :
               a \in {"k", "c"}, b \in {"k", "c"}, c \in {"k", "c"}} : n \in 0..MaxLogKeyLen}

InitDebug ==
    /\ env \in [DASHSCOPE_API_KEY : DebugKeys \cup {None}, DASHSCOPE_API_KEY_CHINA : {None}]
    /\ cfg = NotConstructed
    /\ node = NoNode
    /\ pc = "import"
    /\ call = NoCall
    /\ ncalls = 0
    /\ Idle

\* import of core/api_base.py
ImportBase ==
    /\ pc = "import"
    /\ stdout' = stdout \o ImportLines(env)
    /\ pc' = "construct"
    /\ UNCHANGED <<codec, env, cfg, node, call, request, response, image_url, download,
                   netlog, raised, ret, ncalls>>

\* QwenT2IGenerator() or QwenI2IGenerator() of the region-aware nodes
ConstructPrinting(op) ==
    /\ pc = "construct"
    /\ node' = NewNode("region", op, env)
    /\ stdout' = Append(stdout, InitLine(node'))
    /\ pc' = "ready"
    /\ UNCHANGED <<codec, env, cfg, call, request, response, image_url, download, netlog,
                   raised, ret, ncalls>>

\* generate or edit up to its POST
InvokePrinting(region) ==
    /\ pc = "ready"
    /\ call' = [op |-> node.op, args |-> [region |-> region]]
    /\ stdout' = stdout \o GenerateLines(node, node.op, region)
    /\ pc' = "printed"
    /\ UNCHANGED <<codec, env, cfg, node, request, response, image_url, download, netlog,
                   raised, ret, ncalls>>

NextDebug ==
    \/ ImportBase
    \/ \E op \in {"t2i", "edit"} : ConstructPrinting(op)
    \/ \E region \in Regions : InvokePrinting(region)

SpecDebug == InitDebug /\ [][NextDebug]_vars

(***************************************************************************)
(* Properties.                                                             *)
(***************************************************************************)
\* The value at output.choices[0].message.content[0].image of a parsed body,
\* or the error of the first link that cannot be followed.
PathValue(result) ==
    PyGetKey(PyGetFirst(PyGetKey(PyGetKey(PyGetFirst(
        PyGetKey(PyGetKey(Ok(result), "output"), "choices")),
        "message"), "content")), "image")

\* The value at choices[0].message.content of a parsed body.
DescribePathValue(result) ==
    PyGetKey(PyGetKey(PyGetFirst(PyGetKey(Ok(result), "choices")), "message"), "content")

\* A raw environment value that yields no key: unset, or empty once the
\* whitespace and the quotes around it are stripped.
NoKeyIn(raw) == raw = None \/ StripKey(raw) = <<>>

\* No key is resolvable for an invocation: mainland_china resolves to
\* DASHSCOPE_API_KEY_CHINA if set and otherwise to DASHSCOPE_API_KEY, any
\* other region (and a node without regions) only to DASHSCOPE_API_KEY.
NoKeyResolvable ==
    IF node.impl = "region" /\ call.args.region = "mainland_china"
       /\ ~NoKeyIn(env.DASHSCOPE_API_KEY_CHINA)
    THEN FALSE
    ELSE NoKeyIn(env.DASHSCOPE_API_KEY)

Finished == pc = "done"

\* C1, as stated: every invocation of an image operation makes exactly one
\* POST and then at most one GET, and every describe invocation exactly one
\* POST and no GET.
C1_ExactlyOnePost ==
    Finished =>
        /\ Len(netlog) \in {1, 2}
        /\ netlog[1].method = "POST"
        /\ Len(netlog) = 2 => netlog[2].method = "GET" /\ call.op # "describe"

\* C1, amended: an invocation makes at most one POST and then at most one
\* GET, never repeating either; it makes the POST exactly when its steps
\* before the POST (key check or client check, image encoding, request
\* building, debug output) all succeed, and no network call otherwise.  The
\* GET is made only after the POST returned a non-error status and an image
\* URL was found at output.choices[0].message.content[0].image of its body,
\* and it targets that URL.  A describe invocation makes no GET.
C1_NetworkSequence ==
    /\ Len(netlog) <= 2
    /\ Len(netlog) >= 1 =>
          /\ request.present
          /\ netlog[1] = [method |-> "POST", url |-> request.url]
    /\ Len(netlog) = 2 =>
          /\ call.op # "describe"
          /\ netlog[2].method = "GET"
          /\ response.present
          /\ ~IsErrorStatus(response.status_code)
          /\ response.json # 0
          /\ PathValue(Bodies[response.json]) = Ok(JStr(<<netlog[2].url>>))
          /\ netlog[2].url \in ImageUrls
    /\ pc \in {"parse", "get", "decode"} => Len(netlog) >= 1
    /\ pc = "decode" => Len(netlog) = 2
    /\ Finished => (Len(netlog) >= 1 <=> request.present)

\* C1, witness: an image operation that ended after its POST and its GET.
C1_Witness ==
    /\ Finished
    /\ call.op = "edit"
    /\ Len(netlog) = 2
    /\ ret.kind = "return"

\* C2: an invocation of generate or edit ends either returning the pair
\* (tensor, url), the url being the one found in the POST response and the
\* tensor decoded from the bytes the GET of that url delivered, or raising
\* with nothing returned; describe ends returning the 1-tuple (description,)
\* or raising.  Nothing is returned before the end, and no pair is returned
\* when the download or the decoding failed.
C2_NoPartialSuccess ==
    /\ ~Finished => ret = NoReturn
    /\ Finished => ret.kind \in {"return", "raise"}
    /\ ret.kind = "raise" =>
          /\ DOMAIN ret = {"kind", "exc"}
          /\ raised # <<>>
          /\ ret.exc = raised[Len(raised)]
    /\ ret.kind = "return" /\ call.op # "describe" =>
          /\ raised = <<>>
          /\ Len(ret.value) = 2
          /\ response.present /\ response.json # 0
          /\ Ok(ret.value[2]) = PathValue(Bodies[response.json])
          /\ IsUrl(ret.value[2])
          /\ netlog[Len(netlog)] = [method |-> "GET", url |-> ret.value[2].s[1]]
          /\ download.present
          /\ ~IsErrorStatus(download.status_code)
          /\ download.content.fmt = "png"
          /\ ret.value[1].over255 = download.content.px
          /\ ret.value[1].shape[1] = 1
          /\ ret.value[1].shape[2] = download.content.h
          /\ ret.value[1].shape[3] = download.content.w
    /\ ret.kind = "return" /\ call.op = "describe" =>
          /\ raised = <<>>
          /\ Len(ret.value) = 1
          /\ response.present /\ response.json # 0
          /\ Ok(ret.value[1]) = DescribePathValue(Bodies[response.json])

\* C2, witness: an edit that failed at the decoding of the downloaded bytes,
\* after the url had been extracted.
C2_Witness ==
    /\ Finished
    /\ call.op = "edit"
    /\ IsUrl(image_url)
    /\ download.present
    /\ download.content.fmt = "garbage"
    /\ ret.kind = "raise"

\* C3: when no key is resolvable for the requested region, the invocation
\* raises the configuration error (the ValueError of check_api_key; the
\* client-based node, whose configuration failed at construction, its
\* "API client not initialized" error) and makes no network call; when a key
\* is resolvable, the key check does not fail.
C3_KeyCheck ==
    Finished =>
        IF NoKeyResolvable
        THEN /\ netlog = <<>>
             /\ ~request.present
             /\ ret.kind = "raise"
             /\ raised = <<ret.exc>>
             /\ ret.exc = IF node.impl = "client" THEN NotInitialized
                          ELSE Exc("ValueError", KeyNotSetMsg)
        ELSE \A i \in 1..Len(raised) :
                /\ raised[i].msg # KeyNotSetMsg
                /\ raised[i] # NotInitialized

\* C3, witness: a mainland_china invocation with neither key set.
C3_Witness ==
    /\ Finished
    /\ node.impl = "region"
    /\ call.args.region = "mainland_china"
    /\ NoKeyResolvable

\* A message that includes the formatted value part.
Includes(msg, part) ==
    \E i \in 1..Len(msg) : msg[i].k = part.k /\ msg[i].v = part.v

\* A message that includes the whole message sub, in order.
IncludesMsg(msg, sub) ==
    \E i \in 0..(Len(msg) - Len(sub)) : SubSeq(msg, i + 1, i + Len(sub)) = sub

\* The invocation ended on the POST: it was sent and no GET followed.
EndedOnPost == Finished /\ Len(netlog) = 1

\* The POST of the invocation came back with an HTTP error status.
PostErrorStatus ==
    EndedOnPost /\ response.present /\ IsErrorStatus(response.status_code)

\* C4: QwenAPIConfig() raises QwenAPIConfigurationError when
\* DASHSCOPE_API_KEY is unset or is empty once the whitespace and the quotes
\* around it are stripped; a configuration object that was constructed never
\* holds a missing or an empty api_key.
C4_ConfigKey ==
    cfg.state = "done" =>
        /\ NoKeyIn(env.DASHSCOPE_API_KEY) =>
              /\ ~cfg.result.ok
              /\ cfg.result.exc.type = "QwenAPIConfigurationError"
        /\ cfg.result.ok =>
              /\ cfg.result.api_key # None
              /\ Len(cfg.result.api_key) >= 1

\* C4, witness: a key of nothing but a pair of quotes and a blank is refused.
C4_Witness ==
    /\ cfg.state = "done"
    /\ env.DASHSCOPE_API_KEY = <<DQ, DQ, SP>>
    /\ ~cfg.result.ok

\* C5: a client-based node is constructed whatever the environment holds;
\* when its configuration failed, api_client is None and every invocation of
\* generate or edit on it, the first and each later one, raises the
\* RuntimeError "API client not initialized..." and makes no network call.
C5_ClientNotInitialized ==
    node.impl = "client" =>
        /\ NoKeyIn(env.DASHSCOPE_API_KEY) <=> node.api_client = NoClient
        /\ node.api_client = NoClient =>
              /\ netlog = <<>>
              /\ ~request.present
              /\ pc \in {"idle", "preflight", "done"}
              /\ Finished =>
                    /\ ret = RaisedExc(NotInitialized)
                    /\ raised = <<NotInitialized>>

\* C5, witness: the second invocation on a node without a client has failed.
C5_Witness ==
    /\ node.impl = "client"
    /\ node.api_client = NoClient
    /\ ncalls = MaxCalls
    /\ Finished
    /\ ret = RaisedExc(NotInitialized)

\* C6: when the POST returns HTTP 401, QwenAPIClient raises
\* QwenAPIAuthenticationError, and its message includes the response body as
\* it came, whatever the body is.
C6_Client401 ==
    PostErrorStatus /\ node.impl = "client" /\ response.status_code = 401 =>
        /\ Len(raised) = 3
        /\ raised[1].type = "HTTPError"
        /\ raised[2].type = "QwenAPIAuthenticationError"
        /\ Includes(raised[2].msg, Part("text", response.text))
        /\ ret.kind = "raise"

\* C6, witness: a 401 with a body has been handled by the client.
C6_Witness ==
    /\ PostErrorStatus
    /\ node.impl = "client"
    /\ response.status_code = 401
    /\ response.text = "InvalidApiKey"
    /\ Len(raised) = 3

\* The class QwenAPIClient raises for a response like the one received but
\* of status s.
ClassForStatus(s) ==
    ClientErrorClass(HTTPErrorOf([response EXCEPT !.status_code = s], request.url))

C8_TransportError ==
    /\ PostErrorStatus /\ response.status_code \notin {400, 401, 403} =>
          /\ Len(raised) >= 2
          /\ raised[2].type = IF node.impl = "client" THEN "QwenAPIRequestError"
                              ELSE "RuntimeError"
          /\ \A i \in 2..Len(raised) :
                /\ Includes(raised[i].msg, Part("status", response.status_code))
                /\ Includes(raised[i].msg, Part("reason", response.reason))
                /\ Includes(raised[i].msg, Part("text", response.text))
    /\ EndedOnPost /\ ~response.present =>
          /\ Len(raised) >= 2
          /\ raised[1] = NoResponseExc(response.cause)
          /\ raised[2].type = IF node.impl = "client" THEN "QwenAPIRequestError"
                              ELSE "RuntimeError"
          /\ \A i \in 2..Len(raised) : IncludesMsg(raised[i].msg, raised[1].msg)

\* C8, witness: a 503 has been reported by a region-aware node.
C8_Witness ==
    /\ PostErrorStatus
    /\ response.status_code = 503
    /\ node.impl = "region"
    /\ Includes(ret.exc.msg, Part("reason", "Service Unavailable"))

\* The POST of the invocation returned a 2xx response whose JSON body lacks
\* a link of the path output.choices[0].message.content[0].image.
PostLacksLink ==
    /\ Finished
    /\ call.op # "describe"
    /\ Len(netlog) >= 1
    /\ response.present
    /\ ~IsErrorStatus(response.status_code)
    /\ response.json # 0
    /\ PathValue(Bodies[response.json]).e # ""

\* C9: for a 2xx response of an image operation whose JSON body lacks a link
\* of the path output.choices[0].message.content[0].image (a missing key, an
\* empty list, or a value that is no container, such as null at "output"),
\* QwenAPIClient raises QwenAPIResponseError carrying the body, and never a
\* KeyError, an IndexError or a TypeError.
C9_UnexpectedFormat ==
    PostLacksLink /\ node.impl = "client" =>
        /\ raised[1].type = "QwenAPIResponseError"
        /\ Includes(raised[1].msg, Part("result", response.json))
        /\ \A i \in 1..Len(raised) :
              raised[i].type \notin {"KeyError", "IndexError", "TypeError"}

\* C10: the parameters of a text-to-image payload hold size, prompt_extend
\* and watermark as passed; they hold the key seed exactly when the seed is
\* not 0, and the key negative_prompt exactly when the negative prompt is not
\* the empty string, each with the value passed; they hold no other key.
C10_T2IParameters ==
    request.present /\ call.op = "t2i" =>
        LET parameters == request.payload.parameters
            a          == call.args
        IN  /\ DOMAIN parameters =
                  {"size", "prompt_extend", "watermark"}
                  \cup (IF a.seed # 0 THEN {"seed"} ELSE {})
                  \cup (IF a.negative_prompt # "" THEN {"negative_prompt"} ELSE {})
            /\ parameters.size = a.size
            /\ parameters.prompt_extend = a.prompt_extend
            /\ parameters.watermark = a.watermark
            /\ a.seed # 0 => parameters.seed = a.seed
            /\ a.negative_prompt # "" => parameters.negative_prompt = a.negative_prompt

\* C10, witness: a request built with seed 42 and no negative prompt.
C10_Witness ==
    /\ request.present
    /\ call.op = "t2i"
    /\ call.args.seed = 42
    /\ call.args.negative_prompt = ""
    /\ DOMAIN request.payload.parameters = {"size", "prompt_extend", "watermark", "seed"}

\* The content sequence of the request that was built.
ContentOf(req) == req.payload.input.messages[1].content

\* The invocation has left the steps before its POST.
PastPreflight == pc \in {"post", "parse", "get", "decode", "done"}

\* An edit on a node with a mask input, with a key, an image that encodes
\* and a mask that encodes.
EditWithMask ==
    /\ call.op = "edit"
    /\ node.impl \in {"mono", "client"}
    /\ ~NoKeyResolvable
    /\ call.args.image = TensorA
    /\ call.args.mask_image = TensorM

ImageEntryOf(img) == IF IsGiven(img) THEN <<[image |-> DataUri(img.id)]>> ELSE <<>>

\* C12: a region-aware edit takes up to three images; the content it posts
\* is one entry {image: "data:image/png;base64," + data} per supplied image
\* in the order image1, image2, image3, the absent ones skipped, followed by
\* the text entry as the last element, so that the number of image entries is
\* the number of supplied images (1 to 3).
C12_UpToThreeImages ==
    PastPreflight /\ call.op = "edit" /\ node.impl = "region" =>
        LET a        == call.args
            supplied == {i \in {a.image1, a.image2, a.image3} : IsGiven(i)}
        IN  /\ request.present <=> ~NoKeyResolvable /\ supplied # {}
            /\ request.present =>
                  /\ ContentOf(request) =
                        ImageEntryOf(a.image1) \o ImageEntryOf(a.image2)
                        \o ImageEntryOf(a.image3) \o <<[text |-> a.prompt]>>
                  /\ Len(ContentOf(request)) = Cardinality(supplied) + 1
                  /\ Cardinality(supplied) \in 1..3

\* C12, witness: image1 absent, image2 and image3 supplied.
C12_Witness ==
    /\ PastPreflight
    /\ call.op = "edit"
    /\ node.impl = "region"
    /\ request.present
    /\ call.args.image1 = NoImage
    /\ Len(ContentOf(request)) = 3

\* Every image input of the edit invocation is None.
AllImagesAbsent ==
    IF node.impl = "region"
    THEN \A i \in {call.args.image1, call.args.image2, call.args.image3} : ~IsGiven(i)
    ELSE ~IsGiven(call.args.image)

\* C13: no edit request is posted without an encoded image: in each of the
\* three implementations an edit whose image inputs are all None fails
\* before any POST, and every posted edit payload holds at least one image
\* entry and no image entry whose data is not an encoded PNG (such as the
\* text "None").
C13_NoEditWithoutImage ==
    call.op = "edit" =>
        /\ AllImagesAbsent =>
              /\ netlog = <<>>
              /\ Finished => ret.kind = "raise"
        /\ netlog # <<>> =>
              LET content == ContentOf(request)
              IN  /\ \E i \in 1..Len(content) : "image" \in DOMAIN content[i]
                  /\ \A i \in 1..Len(content) :
                        "image" \in DOMAIN content[i] =>
                            content[i].image # DataUri(NoData)

\* C14: every describe payload that is posted has a content of exactly two
\* entries, first the image entry {type: "image_url", image_url: {url:
\* "data:image/png;base64," + data}} and then the text entry {type: "text",
\* text: prompt}, for every input describe accepts.
C14_DescribeContent ==
    call.op = "describe" /\ netlog # <<>> =>
        LET content == request.payload.messages[1].content
        IN  /\ Len(content) = 2
            /\ content[1] = [type |-> "image_url",
                             image_url |-> [url |-> DataUri(call.args.image.id)]]
            /\ content[2] = [type |-> "text", text |-> call.args.prompt]

\* The URLs on the international host and on the mainland host.
IntlHostUrls ==
    {"https://dashscope-intl.aliyuncs.com/api/v1/services/aigc/multimodal-generation/generation",
     "https://dashscope-intl.aliyuncs.com/compatible-mode/v1/chat/completions"}
MainlandHostUrls ==
    {"https://dashscope.aliyuncs.com/api/v1/services/aigc/multimodal-generation/generation",
     "https://dashscope.aliyuncs.com/compatible-mode/v1/chat/completions"}

\* The region of the invocation; the nodes without a region input have none
\* and use the international deployment.
RegionOf(c) == IF "region" \in DOMAIN c.args THEN c.args.region ELSE "international"

\* C15: the URL a request is posted to is determined by the operation and the
\* region: text-to-image and edit post to the multimodal-generation URL of
\* the region, describe to the chat-completions URL of the region, with the
\* exact strings; mainland_china never posts to the dashscope-intl host and
\* international never to the mainland host.  The nodes without a region
\* input post as international.
C15_EndpointByRegion ==
    netlog # <<>> =>
        LET url    == netlog[1].url
            region == RegionOf(call)
        IN  /\ netlog[1].method = "POST"
            /\ url =
                 CASE call.op = "describe" /\ region = "international" ->
                        "https://dashscope-intl.aliyuncs.com/compatible-mode/v1/chat/completions"
                   [] call.op = "describe" /\ region = "mainland_china" ->
                        "https://dashscope.aliyuncs.com/compatible-mode/v1/chat/completions"
                   [] call.op # "describe" /\ region = "international" ->
                        "https://dashscope-intl.aliyuncs.com/api/v1/services/aigc/multimodal-generation/generation"
                   [] call.op # "describe" /\ region = "mainland_china" ->
                        "https://dashscope.aliyuncs.com/api/v1/services/aigc/multimodal-generation/generation"
            /\ region = "mainland_china" => url \notin IntlHostUrls
            /\ region = "international" => url \notin MainlandHostUrls
            /\ node.impl # "region" => region = "international"

\* C15, witness: a mainland_china edit has been posted.
C15_Witness ==
    /\ netlog # <<>>
    /\ call.op = "edit"
    /\ node.impl = "region"
    /\ call.args.region = "mainland_china"
    /\ netlog[1].url \in MainlandHostUrls

\* An invocation for mainland_china on a node that holds a China key, with
\* image inputs that can be encoded.
ChinaInvocation ==
    /\ PastPreflight
    /\ node.impl = "region"
    /\ call.args.region = "mainland_china"
    /\ ~NoKeyIn(env.DASHSCOPE_API_KEY_CHINA)
    /\ call.op = "edit" => ~AllImagesAbsent
    /\ call.op = "describe" => call.args.image # TensorOver

\* C16: with region mainland_china and DASHSCOPE_API_KEY_CHINA present,
\* generate, edit and describe each reach their POST and send
\* "Authorization: Bearer <China key>", also when DASHSCOPE_API_KEY is not
\* set.
C16_ChinaKeyAlone ==
    ChinaInvocation =>
        /\ request.present
        /\ request.headers.Authorization = Bearer(StripKey(env.DASHSCOPE_API_KEY_CHINA))
        /\ pc # "post" => netlog # <<>>

\* r is s without its longest prefix and its longest suffix of characters of
\* the set cs.
IsTrimOf(r, s, cs) ==
    \E a \in 1..(Len(s) + 1) : \E b \in (a - 1)..Len(s) :
        /\ r = SubSeq(s, a, b)
        /\ \A i \in 1..(a - 1) : s[i] \in cs
        /\ \A i \in (b + 1)..Len(s) : s[i] \in cs
        /\ a <= b => s[a] \notin cs /\ s[b] \notin cs

\* key is raw with the surrounding whitespace trimmed and then every quote
\* character at either end removed.
IsKeyOf(key, raw) ==
    \E a \in 1..(Len(raw) + 1) : \E b \in (a - 1)..Len(raw) :
        /\ IsTrimOf(SubSeq(raw, a, b), raw, Whitespace)
        /\ IsTrimOf(key, SubSeq(raw, a, b), Quotes)

\* w without one pair of identical quote characters around it, if it has one.
OneQuoteLayerOff(w) ==
    IF Len(w) >= 2 /\ w[1] \in Quotes /\ w[Len(w)] = w[1]
    THEN SubSeq(w, 2, Len(w) - 1)
    ELSE w

\* key is raw with the surrounding whitespace trimmed and one layer of
\* matching quotes removed.
IsOneLayerKeyOf(key, raw) ==
    \E a \in 1..(Len(raw) + 1) : \E b \in (a - 1)..Len(raw) :
        /\ IsTrimOf(SubSeq(raw, a, b), raw, Whitespace)
        /\ key = OneQuoteLayerOff(SubSeq(raw, a, b))

\* The keys that were read from the environment: the one of the
\* configuration object and the one of the node.
KeysRead ==
    (IF cfg.state = "done" /\ cfg.result.ok THEN {cfg.result.api_key} ELSE {})
    \cup (IF node # NoNode /\ Truthy(env.DASHSCOPE_API_KEY) THEN {node.api_key} ELSE {})

\* C17, as stated: the key used is the environment value with the
\* surrounding whitespace trimmed and exactly one layer of matching quotes
\* removed; further layers, an unmatched quote and mismatched quotes stay.
C17_OneQuoteLayer ==
    \A key \in KeysRead : IsOneLayerKeyOf(key, env.DASHSCOPE_API_KEY)

\* C17, amended: the key used is the environment value with the surrounding
\* whitespace trimmed and then every quote character, single or double, at
\* either end removed: any number of layers, an unmatched quote on one side
\* and mismatched quotes all go; whitespace inside the quotes and every
\* character between the outermost non-quote characters stay.
C17_StripAllQuotes ==
    \A key \in KeysRead :
        /\ IsKeyOf(key, env.DASHSCOPE_API_KEY)
        /\ key # <<>> => key[1] \notin Quotes /\ key[Len(key)] \notin Quotes

\* C17, witness: a value with a double and a single quote before the key and
\* one double quote after it has been read as the bare key.
C17_Witness ==
    /\ env.DASHSCOPE_API_KEY = <<DQ, SQ, "k", DQ>>
    /\ cfg.state = "done"
    /\ node # NoNode
    /\ KeysRead = {<<"k">>}

\* The codec run has encoded its tensor, successfully or not.
Encoded == codec.stage \in {"encoded", "decoded"}

\* Every value of the tensor is k/255 for an integer k in 0..255.
Quantized(t) == \A i \in 1..Len(t.vals) : t.vals[i] <= One /\ t.vals[i] % 2 = 0

\* The shape with a leading batch dimension of size 1.
WithBatch(shape) == IF Len(shape) = 4 THEN shape ELSE <<1>> \o shape

\* C18: for every tensor with values k/255, k in 0..255, decoding what
\* encode produced gives a tensor with the same pixels, its shape being that
\* of the original with a leading batch dimension of size 1.
C18_RoundTrip ==
    Encoded /\ Quantized(codec.tensor) =>
        /\ codec.encoded.ok
        /\ codec.stage = "decoded" =>
              /\ codec.decoded.ok
              /\ codec.decoded.tensor.shape = WithBatch(codec.tensor.shape)
              /\ \A i \in 1..Len(codec.tensor.vals) :
                    2 * codec.decoded.tensor.over255[i] = codec.tensor.vals[i]

\* round(v), for v held as v * 510.
Round(v) == (2 * v + One) \div (2 * One)

\* C19: for every tensor with values in [0,255] and a maximum above 1.0,
\* encode succeeds without rescaling: the pixels of the encoded image are
\* the rounded values, as 8-bit values.
C19_NoDoubleScaling ==
    Encoded /\ SeqMax(codec.tensor.vals) > One =>
        /\ codec.encoded.ok
        /\ B64Decode(codec.encoded.data).px =
              [i \in 1..Len(codec.tensor.vals) |-> Round(codec.tensor.vals[i])]

\* C20: for every tensor of shape [1,H,W,C] the array that is made an image
\* has shape [H,W,C], also when H, W or C is 1: only the leading batch
\* dimension is removed.
C20_SqueezeBatchOnly ==
    Encoded /\ Len(codec.tensor.shape) = 4 =>
        codec.array.shape = Tail(codec.tensor.shape)

\* An image operation has ended returning its pair (tensor, url).
ImageReturned == Finished /\ call.op # "describe" /\ ret.kind = "return"

\* C21: on success of an image operation the returned tensor has shape
\* [1,H,W,3], H and W being the height and the width of the downloaded
\* image, and every value in [0,1], whatever the mode of the PNG (RGB, RGBA,
\* grayscale): one leading batch dimension of size 1 and always 3 channels.
C21_ReturnedShape ==
    ImageReturned =>
        /\ ret.value[1].shape = <<1, download.content.h, download.content.w, 3>>
        /\ \A i \in 1..Len(ret.value[1].over255) : ret.value[1].over255[i] \in 0..255

\* The invocation ended raising after its GET was sent.
FailedOnGet == Finished /\ Len(netlog) = 2 /\ ret.kind = "raise"

\* The texts that report a 401, a 403 and a 400 of the API request.
ApiStatusTexts == {Lit(Msg401), Lit(Msg403), Lit(Msg400)}

\* C22: a failure of the GET that downloads the result image is reported as
\* a transport error whatever the status of the download: a 401, 403 or 400
\* on the image URL is never reported with the authentication or bad-request
\* text of the API request, nor as an authentication error; bytes that are
\* no image are reported as an unexpected format.
C22_DownloadFailure ==
    FailedOnGet =>
        /\ ~download.present \/ IsErrorStatus(download.status_code) =>
              \A i \in 1..Len(raised) :
                  /\ raised[i].type # "QwenAPIAuthenticationError"
                  /\ \A j \in 1..Len(raised[i].msg) : raised[i].msg[j] \notin ApiStatusTexts
        /\ download.present /\ ~IsErrorStatus(download.status_code) =>
              \E i \in 1..Len(raised) : raised[i].type = UnexpectedFormatClass(node.impl)

\* What an invocation with arguments c on a node n comes to when its POST
\* produces post and its GET produces get: the exceptions raised and the way
\* it ends.
RunOf(n, c, post, get) ==
    LET p      == PreflightOf(n, c)
        failed(chain) == [raised |-> chain, ret |-> RaisedExc(Last(chain))]
    IN  IF ~p.ok THEN failed(p.chain)
        ELSE LET res == PostResult(n.impl, c.op, post, p.request.url)
             IN  IF res.thrown THEN failed(InPostTry(n.impl, c.op, res.exc))
                 ELSE IF c.op = "describe"
                 THEN [raised |-> <<>>, ret |-> Returned(<<res.v>>)]
                 ELSE IF ~IsUrl(res.v)
                 THEN failed(InNodeTry(n.impl, c.op, MissingSchemaExc))
                 ELSE LET d == DecodeResult(get, res.v.s[1])
                      IN  IF d.thrown THEN failed(InNodeTry(n.impl, c.op, d.exc))
                          ELSE [raised |-> <<>>, ret |-> Returned(<<d.v, res.v>>)]

\* C23: the configuration is immutable across invocations: whatever
\* invocations were made on a node, successful or failed, its keys, its
\* endpoint URLs and its model name are those fixed at construction from the
\* environment; and the outcome of an invocation is determined by its own
\* arguments, that configuration and the remote responses, the same as on a
\* freshly constructed node.
C23_ConfigImmutable ==
    node # NoNode =>
        /\ node = NewNode(node.impl, node.op, env)
        /\ Finished =>
              [raised |-> raised, ret |-> ret] =
                  RunOf(NewNode(node.impl, node.op, env), call, response, download)

\* C23, witness: the second invocation on a region-aware node has returned
\* an image for the international region.
C23_Witness ==
    /\ ncalls = MaxCalls
    /\ ImageReturned
    /\ node.impl = "region"
    /\ call.args.region = "international"
    /\ node.api_key = <<"k">>
    /\ node.api_key_china = <<"c">>

\* The generic texts of the client-based nodes.
GenericTexts == {Lit(FailedTo("t2i")), Lit(FailedTo("edit"))}

\* C24: a failure is classified once, by the client: for every error
\* QwenAPIClient raises (authentication, request, response) the client-based
\* node raises one error whose message is "Qwen API error: " followed by the
\* client's message unchanged; it is the last exception of the invocation,
\* built from the client's error alone whatever the HTTP status was, and it
\* does not carry the generic "Failed to generate image" / "Failed to edit
\* image" text.
C24_ClassifiedOnce ==
    node.impl = "client" /\ Finished =>
        \A i \in 1..Len(raised) :
            raised[i].type \in QwenAPIErrorClasses =>
                /\ i = Len(raised) - 1
                /\ ret = RaisedExc(raised[i + 1])
                /\ raised[i + 1].type = "RuntimeError"
                /\ raised[i + 1].msg = <<Lit("Qwen API error: ")>> \o raised[i].msg
                /\ \A j \in 1..Len(raised[i + 1].msg) :
                      raised[i + 1].msg[j] \notin GenericTexts
                /\ \A j \in 1..(i - 1) : raised[j].type \notin QwenAPIErrorClasses

\* C24, witness: the client's error for a 403 has been surfaced by the node.
C24_Witness ==
    /\ node.impl = "client"
    /\ PostErrorStatus
    /\ response.status_code = 403
    /\ response.text = "quota exceeded"
    /\ ret.exc.msg = <<Lit("Qwen API error: "), Lit(Msg403), Part("text", "quota exceeded")>>

\* C25: whether encode rescales depends on the maximum of the tensor alone:
\* every tensor whose maximum is at most 1.0 has each value multiplied by 255
\* and cast to 8 bits, and a tensor whose maximum is above 1.0 is left as it
\* is.  So an all-zero tensor gives all-zero pixels, and a tensor whose
\* values are all 0 or 1 gives the pixel 255 for each value 1.
C25_MaxHeuristic ==
    Encoded =>
        LET vals == codec.tensor.vals
            n    == Len(vals)
        IN  /\ Len(codec.array.vals) = n
            /\ SeqMax(vals) <= One =>
                  /\ codec.array.dtype = "uint8"
                  /\ \A i \in 1..n :
                        /\ codec.array.vals[i] * One <= vals[i] * 255
                        /\ vals[i] * 255 < (codec.array.vals[i] + 1) * One
                        /\ vals[i] = 0 => codec.array.vals[i] = 0
                        /\ vals[i] = One => codec.array.vals[i] = 255
                  /\ codec.encoded.ok => B64Decode(codec.encoded.data).px = codec.array.vals
            /\ SeqMax(vals) > One =>
                  /\ codec.array.dtype = "float32"
                  /\ codec.array.vals = vals

\* C25, witness: a tensor of the values 1 and 0 has been encoded with the
\* pixels 255 and 0.
C25_Witness ==
    /\ Encoded
    /\ codec.tensor.vals[1] = One
    /\ codec.tensor.vals[2] = 0
    /\ codec.encoded.ok
    /\ B64Decode(codec.encoded.data).px[1] = 255
    /\ B64Decode(codec.encoded.data).px[2] = 0

\* A describe invocation has read a 2xx response with a JSON body.
DescribeRead ==
    /\ Finished
    /\ call.op = "describe"
    /\ Len(netlog) = 1
    /\ response.present
    /\ ~IsErrorStatus(response.status_code)
    /\ response.json # 0

\* A parsed body in which "choices" is missing or an empty list, or in which
\* choices[0] has no "message", or the message no "content".
DescribeLacks(body) ==
    /\ body.t = "dict"
    /\ \/ "choices" \notin DOMAIN body.d
       \/ /\ body.d.choices.t = "list"
          /\ \/ Len(body.d.choices.l) = 0
             \/ LET choice == body.d.choices.l[1]
                IN  /\ choice.t = "dict"
                    /\ \/ "message" \notin DOMAIN choice.d
                       \/ /\ choice.d.message.t = "dict"
                          /\ "content" \notin DOMAIN choice.d.message.d

\* C26: for a 2xx describe response, describe returns the 1-tuple of the
\* value at choices[0].message.content whenever that path exists; when
\* "choices" is missing or empty, or "message" or "content" is missing, it
\* raises the unexpected-format error, whose message carries the parsed
\* body, and the error surfaced carries it too; no tuple is returned unless
\* the path exists.
C26_DescribeExtraction ==
    DescribeRead =>
        LET body == Bodies[response.json]
            at   == DescribePathValue(body)
        IN  /\ at.e = "" => ret = Returned(<<at.v>>)
            /\ ret.kind = "return" => at.e = "" /\ Len(ret.value) = 1
            /\ DescribeLacks(body) =>
                  /\ raised[1] = Exc("ValueError", UnexpectedFormatMsg(response.json))
                  /\ ret.kind = "raise"
                  /\ IncludesMsg(ret.exc.msg, UnexpectedFormatMsg(response.json))

\* C26, witness: a body whose message has no content has been refused.
C26_Witness ==
    /\ DescribeRead
    /\ Bodies[response.json] = DescribeChoice0(JDict([message |-> JEmptyDict]))
    /\ ret.kind = "raise"
    /\ Includes(ret.exc.msg, Part("result", response.json))

\* The call of QwenAPIClient.generate_image or edit_image has ended.
ClientCallEnded ==
    /\ node.impl = "client"
    /\ Len(netlog) >= 1
    /\ pc \in {"get", "decode", "done"}

\* C27: a call of QwenAPIClient.generate_image or edit_image never ends
\* without a result: it either returns the value found at
\* output.choices[0].message.content[0].image of the response, or raises an
\* error of a QwenAPIError subclass.
C27_ClientResultOrError ==
    ClientCallEnded =>
        \/ /\ image_url # Unset
           /\ Ok(image_url) = PathValue(Bodies[response.json])
        \/ /\ image_url = Unset
           /\ Finished
           /\ Len(raised) >= 2
           /\ raised[Len(raised) - 1].type \in QwenAPIErrorClasses

\* The texts a message of the HTTP-status handler begins with.
RequestFailedTexts == {Msg401, Msg403, Msg400, "API request failed: "}

ProcessPrefix == Lit("Failed to process API response: ")

\* C28: in the monolithic and the region-aware nodes every failure after the
\* POST was sent (error status, no response, unexpected body, failed
\* download, bytes that are no image) ends the invocation with exactly one
\* RuntimeError, raised for the one exception that left the try block.  When
\* that exception is a RequestException the RuntimeError has the "API
\* request failed" message, without the "Failed to process API response"
\* prefix; the unexpected-format ValueError is wrapped once with that prefix.
C28_OneRuntimeError ==
    node.impl \in {"mono", "region"} /\ Finished /\ Len(netlog) >= 1 /\ ret.kind = "raise" =>
        /\ Len(raised) = 2
        /\ raised[1].type # "RuntimeError"
        /\ raised[2].type = "RuntimeError"
        /\ ret.exc = raised[2]
        /\ raised[1].isRequestException =>
              /\ raised[2].msg[1].k = "lit"
              /\ raised[2].msg[1].v \in RequestFailedTexts
              /\ \A j \in 1..Len(raised[2].msg) : raised[2].msg[j] # ProcessPrefix
        /\ ~raised[1].isRequestException =>
              /\ raised[2].msg = <<ProcessPrefix>> \o raised[1].msg
              /\ \A j \in 2..Len(raised[2].msg) : raised[2].msg[j] # ProcessPrefix
        /\ raised[1].type = "ValueError" =>
              raised[2].msg = <<ProcessPrefix>> \o UnexpectedFormatMsg(response.json)

\* C28, witness: a 500 on the POST of a region-aware node has been reported
\* with the message of the status handler.
C28_Witness ==
    /\ node.impl = "region"
    /\ PostErrorStatus
    /\ response.status_code = 500
    /\ raised = <<HTTPErrorOf(response, request.url),
                  Exc("RuntimeError", OtherStatusMsg(response))>>

\* The arguments of a text-to-image invocation without the region.
T2ICore(a) == [f \in DOMAIN a \ {"region"} |-> a[f]]

\* With environment e and arguments a, the three implementations of
\* text-to-image each build a request, and the three requests are equal in
\* URL, headers and payload.
SameT2IRequest(e, a) ==
    LET mono   == MonoT2IPreflight(NewNode("mono", "t2i", e), a)
        region == RegionT2IPreflight(NewNode("region", "t2i", e),
                                     a @@ [region |-> "international"])
        client == ClientT2IPreflight(NewNode("client", "t2i", e), a)
    IN  /\ mono.ok /\ region.ok /\ client.ok
        /\ mono.request = region.request
        /\ region.request = client.request

\* The three implementations read response r of a POST to url in the same
\* way: all find the same image URL, or none finds one.
SameT2IExtraction(r, url) ==
    \A i, j \in Impls :
        LET ri == PostResult(i, "t2i", r, url)
            rj == PostResult(j, "t2i", r, url)
        IN  /\ ri.thrown = rj.thrown
            /\ ~ri.thrown => ri.v = rj.v

\* C29: the three implementations of text-to-image are equivalent on the
\* wire: with the same international key and the same prompt, size,
\* negative_prompt, prompt_extend, watermark and seed, the monolithic node,
\* the region-aware node with region international and the client post the
\* same payload to the same URL with the same Authorization, Content-Type
\* and X-DashScope-Async headers, and extract the same image URL from the
\* same response.
C29_T2IEquivalent ==
    call.op = "t2i" /\ RegionOf(call) = "international" /\ request.present =>
        /\ SameT2IRequest(env, T2ICore(call.args))
        /\ request = MonoT2IPreflight(NewNode("mono", "t2i", env), T2ICore(call.args)).request
        /\ DOMAIN request.headers = {"Authorization", "ContentType", "XDashScopeAsync"}
        /\ pc = "post" =>
              \A a \in FullArgsOf("mono", "t2i") : SameT2IRequest(env, a)
        /\ pc \in {"parse", "get", "decode", "done"} =>
              /\ SameT2IExtraction(response, request.url)
              /\ image_url # Unset =>
                    \A i \in Impls :
                        PostResult(i, "t2i", response, request.url) = Value(image_url)

\* C29, witness: a monolithic node has posted with seed 42 and read the
\* image URL from the response.
C29_Witness ==
    /\ call.op = "t2i"
    /\ node.impl = "mono"
    /\ call.args.seed = 42
    /\ call.args.negative_prompt = "blurry"
    /\ pc = "get"
    /\ IsUrl(image_url)
    /\ request.headers.Authorization = Bearer(<<"k">>)

\* What a debug run with environment e has printed when it stands at pc.
StdoutFor(e, op, region, at) ==
    (IF at \in {"construct", "ready", "printed"} THEN ImportLines(e) ELSE <<>>)
    \o (IF at \in {"ready", "printed"} THEN <<InitLine(NewNode("region", op, e))>> ELSE <<>>)
    \o (IF at = "printed" THEN GenerateLines(NewNode("region", op, e), op, region) ELSE <<>>)

\* The keys that have the first 8 and the last 4 characters of key with
\* nothing or one character between them, other than key itself.
KeysLike(key) ==
    {First8(key) \o mid \o Last4(key) : mid \in {<<>>, <<"k">>, <<"c">>}} \ {key}

\* C30: the debug output never discloses the complete API key: every key
\* part of a printed line is the first 8 or the last 4 characters of the key
\* and never the key itself, and the key cannot be told from the output:
\* another key gives the same output.  This holds for every key, those of 12
\* characters or fewer included.
C30_KeyNotDisclosed ==
    LET key == env.DASHSCOPE_API_KEY
    IN  Truthy(key) /\ stdout # <<>> =>
            /\ \A i \in 1..Len(stdout) : \A j \in 1..Len(stdout[i]) :
                  stdout[i][j].k # "lit" =>
                      /\ stdout[i][j].v \in {First8(key), Last4(key)}
                      /\ stdout[i][j].v # key
            /\ \E other \in KeysLike(key) :
                  StdoutFor([env EXCEPT !.DASHSCOPE_API_KEY = other], node.op,
                            IF pc = "printed" THEN call.args.region ELSE "international",
                            pc) = stdout

=============================================================================
